---- MODULE Spec2Model ----
(***************************************************************************)
(* Model of the openrouter-skills registry (createSkillsProvider and its   *)
(* handleToolCall), of skill discovery (discoverSkills) and of the script  *)
(* executor (executeScript).                                               *)
(*                                                                         *)
(* Every asynchronous filesystem call of the code is one step of the task  *)
(* that issued it: the step samples the disk and runs the continuation up  *)
(* to the next await.  Disk writes by the outside world are steps of their *)
(* own and interleave with the tasks.                                      *)
(***************************************************************************)
EXTENDS Integers, Sequences, FiniteSets, TLC

VARIABLES
  platform,      \* "posix" or "win32": the path convention of the host
  drives,        \* win32: the other drives that exist, each with a current directory
  resolvedDirs,  \* the configured roots, in order (provider.ts resolvedDirs)
  filterOpts,    \* include / exclude folder names, and whether include was given
  limits,        \* the bounds of the behaviour: disk events, calls, active callers
  disk,          \* the skill directories on disk
  epoch,         \* number of disk modifications so far
  skillsMap,     \* skill name -> SkillDefinition, or NoSkill
  mtimes,        \* skill name -> stored SKILL.md mtimeMs, or Undef
  task,          \* per task: position in its handler and its locals
  calls          \* number of calls issued so far

vars == <<platform, drives, resolvedDirs, filterOpts, limits, disk, epoch, skillsMap, mtimes, task, calls>>

(***************************************************************************)
(* Bounds.                                                                 *)
(***************************************************************************)
MaxDiskEvents == 2   \* disk modifications in one behaviour, one caller
MaxCalls == 2        \* handleToolCall calls in one behaviour, one caller
MaxConcEvents == 1   \* disk modifications in one behaviour, two callers
MaxConcCalls == 2    \* handleToolCall calls in one behaviour, two callers
MaxLen == 3          \* length of the script strings given to executeScript
MaxCap == 2          \* largest maxOutput given to executeScript, in bytes
MaxOutLen == 2       \* characters a child writes to one stream
MaxArgs == 2         \* length of the args list given to executeScript
MaxText == 8         \* length of the texts given to parseSkillFile
MaxItems == 4        \* items of the stream given to processTurn

(***************************************************************************)
(* File names are sequences of characters.                                 *)
(***************************************************************************)
SKILL_FILENAME == <<"S", "K", "I", "L", "L", ".", "m", "d">>
ScriptsDirName == <<"s", "c", "r", "i", "p", "t", "s">>
SCRIPT_EXTENSIONS ==
  { <<".", "m", "j", "s">>, <<".", "j", "s">>, <<".", "s", "h">>, <<".", "t", "s">> }

R_JS == <<"r", ".", "j", "s">>     \* r.js
N_SH == <<"n", ".", "s", "h">>     \* n.sh
H_JS == <<"h", ".", "j", "s">>     \* h.js
D_MD == <<"d", ".", "m", "d">>     \* d.md, not a script

\* readdir lists the entries of a directory in this order
FileOrder == <<D_MD, H_JS, N_SH, R_JS>>

Letters == {"a", "r", "n", "h", "d", "j", "s", "m", "C"}

RECURSIVE SeqRange(_)
SeqRange(s) == IF s = <<>> THEN {} ELSE {Head(s)} \cup SeqRange(Tail(s))

\* String.prototype.includes for a one-character needle
IncludesChar(s, c) == \E i \in 1..Len(s) : s[i] = c

\* String.prototype.includes('..')
IncludesDotDot(s) == \E i \in 1..(Len(s) - 1) : s[i] = "." /\ s[i + 1] = "."

IsWhitespace(c) == c \in {" ", "\t"}

\* String.prototype.trim().length === 0
TrimIsEmpty(s) == \A i \in 1..Len(s) : IsWhitespace(s[i])

\* node:path isAbsolute, under the host's path convention
IsAbsolute(s, plat) ==
  IF plat = "posix"
  THEN Len(s) > 0 /\ s[1] = "/"
  ELSE \/ Len(s) > 0 /\ s[1] \in {"/", "\\"}
       \/ Len(s) > 2 /\ s[1] \in Letters /\ s[2] = ":" /\ s[3] \in {"/", "\\"}

\* isSimpleFilename without the backslash test
isSimpleFilename_NoBackslash(script, plat) ==
  /\ ~(script = <<>> \/ TrimIsEmpty(script))
  /\ ~(IncludesDotDot(script) \/ IncludesChar(script, "/"))
  /\ ~IsAbsolute(script, plat)

isSimpleFilename(script, plat) ==
  /\ ~(script = <<>> \/ TrimIsEmpty(script))
  /\ ~(IncludesDotDot(script) \/ IncludesChar(script, "/") \/ IncludesChar(script, "\\"))
  /\ ~IsAbsolute(script, plat)

\* String.prototype.lastIndexOf('.'), 1-based, 0 when absent
RECURSIVE LastIndexOfDot(_, _)
LastIndexOfDot(s, i) ==
  IF i = 0 THEN 0 ELSE IF s[i] = "." THEN i ELSE LastIndexOfDot(s, i - 1)

\* entry.name.slice(entry.name.lastIndexOf('.')); slice(-1) is the last character
ExtOf(name) ==
  LET k == LastIndexOfDot(name, Len(name))
  IN IF name = <<>> THEN <<>>
     ELSE IF k = 0 THEN SubSeq(name, Len(name), Len(name))
     ELSE SubSeq(name, k, Len(name))

(***************************************************************************)
(* The disk.  A skill directory is <<root, folder>>.  Its manifest has a   *)
(* history of versions: hist[v] is the modification time version v was     *)
(* written with, the current version is the last one, and the content of   *)
(* version v of directory d is identified by <<d, v>>.                     *)
(***************************************************************************)
AllRoots == {"rA", "rB"}
FolderOrder == <<"alpha", "beta">>    \* readdir order of a root
Folders == SeqRange(FolderOrder)
AllDirs == AllRoots \X Folders
NoDir == <<"", "">>

SkillNames == Folders
FmNames == {""}               \* frontmatter name values; "" is no name field

AllNames == SkillNames \cup {"zeta"}   \* "zeta" never exists on disk

Undef == -1
NoText == <<>>
NoSkill == [name |-> "", content |-> NoText, dirPath |-> NoDir, scripts |-> <<>>]
NoParsed == [name |-> "", content |-> NoText]

ConfiguredDirs == {d \in AllDirs : d[1] \in SeqRange(resolvedDirs)}

CurMtime(d) == disk[d].hist[Len(disk[d].hist)]

\* stat(join(dir, 'SKILL.md')) succeeds and reports a regular file
ManifestIsFile(d) == disk[d].present

\* the frontmatter name and the body of a manifest
ParseManifest(rec, d) == [name |-> rec.fmname, content |-> <<d, Len(rec.hist)>>]

\* parseSkillFile on the current manifest of d
parseSkillFile(d) == ParseManifest(disk[d], d)

\* collectScripts keeps the regular files with an extension in SCRIPT_EXTENSIONS
collectScripts(files) ==
  SelectSeq(FileOrder, LAMBDA f : f \in files /\ ExtOf(f) \in SCRIPT_EXTENSIONS)

RECURSIVE PrefixEach(_)
\* subScripts.map((s) => `scripts/${s}`)
PrefixEach(s) ==
  IF s = <<>> THEN <<>>
  ELSE <<ScriptsDirName \o <<"/">> \o Head(s)>> \o PrefixEach(Tail(s))

\* the SkillDefinition pushed by discoverSkills / returned by loadSkill
MakeSkill(parsed, fallbackName, d, top, sub) ==
  [name |-> IF parsed.name # "" THEN parsed.name ELSE fallbackName,
   content |-> parsed.content,
   dirPath |-> d,
   scripts |-> top \o PrefixEach(sub)]

\* skill.scripts.includes(script), always true
ScriptsIncludes_Always(skill, script) == TRUE

\* skill.scripts.includes(script)
ScriptsIncludes(skill, script) == script \in SeqRange(skill.scripts)

(***************************************************************************)
(* Disk modifications by the outside world.                                *)
(***************************************************************************)
NextMtimes(d) ==
  IF disk[d].hist = <<>> THEN {1} ELSE {CurMtime(d), CurMtime(d) + 1}

\* the script files the outside world adds to and removes from a skill directory
AddableTop == {N_SH}
Removable == {N_SH, R_JS}

WriteManifest(d, m, nm) ==
  /\ epoch < limits.events
  /\ d \in ConfiguredDirs
  /\ m \in NextMtimes(d)
  /\ disk' = [disk EXCEPT ![d].present = TRUE,
                          ![d].hist = Append(@, m),
                          ![d].fmname = nm]
  /\ epoch' = epoch + 1
  /\ UNCHANGED <<platform, drives, resolvedDirs, filterOpts, limits, skillsMap, mtimes, task, calls>>

RemoveManifest(d) ==
  /\ epoch < limits.events
  /\ d \in ConfiguredDirs
  /\ disk[d].present
  /\ disk' = [disk EXCEPT ![d].present = FALSE]
  /\ epoch' = epoch + 1
  /\ UNCHANGED <<platform, drives, resolvedDirs, filterOpts, limits, skillsMap, mtimes, task, calls>>

AddScript(d, f) ==
  /\ epoch < limits.events
  /\ d \in ConfiguredDirs
  /\ f \in AddableTop \ disk[d].top
  /\ disk' = [disk EXCEPT ![d].top = @ \cup {f}]
  /\ epoch' = epoch + 1
  /\ UNCHANGED <<platform, drives, resolvedDirs, filterOpts, limits, skillsMap, mtimes, task, calls>>

RemoveScript(d, f) ==
  /\ epoch < limits.events
  /\ d \in ConfiguredDirs
  /\ f \in disk[d].top \cap Removable
  /\ disk' = [disk EXCEPT ![d].top = @ \ {f}]
  /\ epoch' = epoch + 1
  /\ UNCHANGED <<platform, drives, resolvedDirs, filterOpts, limits, skillsMap, mtimes, task, calls>>

(***************************************************************************)
(* Results.  A call ends with a SkillExecutionResult value or, when an     *)
(* exception escapes the handler, with a rejected promise.                 *)
(***************************************************************************)
NoMessage == [text |-> "", quoted |-> <<>>, available |-> {}, raw |-> <<>>]
NoResult ==
  [rejected |-> FALSE, success |-> FALSE, stdout |-> NoText, stderr |-> NoMessage,
   exitCode |-> 0, error |-> "pending"]
Rejected == [NoResult EXCEPT !.rejected = TRUE, !.error = "rejected"]

\* fail building a result with exitCode 0
fail_ExitZero(error, stderr) ==
  [rejected |-> FALSE, success |-> FALSE, stdout |-> NoText, stderr |-> stderr,
   exitCode |-> 0, error |-> error]

\* fail(error, stderr)
fail(error, stderr) ==
  [rejected |-> FALSE, success |-> FALSE, stdout |-> NoText, stderr |-> stderr,
   exitCode |-> -1, error |-> error]

Success(stdout) ==
  [rejected |-> FALSE, success |-> TRUE, stdout |-> stdout, stderr |-> NoMessage,
   exitCode |-> 0, error |-> "none"]

\* provider.skillNames
skillNamesOf(map) == {n \in AllNames : map[n] # NoSkill}

(***************************************************************************)
(* Tasks.  "ctor" runs createSkillsProvider; the callers issue             *)
(* handleToolCall and executeScript calls.                                 *)
(***************************************************************************)
Callers == {"t1", "t2"}

\* values of args.args: an array of items, or a value of another type
StrItem == [t |-> "string", v |-> "a"]
NumItem == [t |-> "number", v |-> "7"]
ArgArray(items) == [kind |-> "array", items |-> items]
ArgOther(kind) == [kind |-> kind, items |-> <<>>]
NoArgs == ArgOther("undefined")
Tasks == {"ctor"} \cup Callers

NoDisc == [pc |-> "done", e |-> 0, acc |-> <<>>, parsed |-> NoParsed, top |-> <<>>]

\* a result's stderr holding the text of the child's stderr
StderrText(chars) == [NoMessage EXCEPT !.raw = chars]

\* what the child wrote to stderr, when it wrote something
ChildStderr == <<"a">>

\* the endings of a child that execFile's timer has not signalled, and of one
\* it has: the signal kills it, or the child catches the signal and exits
EndingsAt(pc) ==
  IF pc = "ex_term" THEN {"timeout", "trapExit0", "trapExitNonzero"}
  ELSE {"exit0", "exitNonzero", "timeout", "maxBuffer", "signal", "spawnError"}
Endings == EndingsAt("ex_run") \cup EndingsAt("ex_term")

\* child.exitCode when the child did not exit by itself
NullCode == 256
\* the errno of a failed spawn, which onexit stores as child.exitCode
SpawnErrno == -2

\* child.exitCode at the callback: null after a signal; after the maxBuffer
\* error the child was killed or had already exited
CodesOf(how) ==
  CASE how \in {"exit0", "trapExit0"} -> {0}
    [] how \in {"exitNonzero", "trapExitNonzero"} -> {1}
    [] how = "maxBuffer" -> {NullCode, 0}
    [] how = "spawnError" -> {SpawnErrno}
    [] OTHER -> {NullCode}

\* how the child ended, and what execFile had captured of its output by then
Outcome(how, out, err) ==
  [how |-> how, out |-> out, err |-> err, code |-> CHOOSE c \in CodesOf(how) : TRUE]
NoChild == Outcome("none", <<>>, <<>>)

\* what parseSkillFile made of a text: whether it took a frontmatter block
\* from it, the block, and the content
NoFile == [found |-> FALSE, block |-> <<>>, content |-> <<>>]

\* the locals of processTurn before its loop, the text it returns, and what
\* the stream has delivered so far (eventIds: the call of each emitted event)
CallIds == {"c1", "c2"}
NoItem == [name |-> "", arguments |-> ""]
NoTurn ==
  [seenCalls |-> {}, seenResults |-> {}, callNames |-> [c \in CallIds |-> ""],
   skipCallIds |-> {}, history |-> <<>>, events |-> <<>>, streamedText |-> <<>>,
   text |-> <<>>, getText |-> <<>>, carried |-> FALSE, eventIds |-> <<>>,
   n |-> 0, sent |-> [c \in CallIds |-> NoItem], completedIds |-> {},
   outputIds |-> {}, completedFirst |-> {}, repeats |-> {}]

Idle ==
  [pc |-> "idle", op |-> "", skillName |-> "", script |-> <<>>,
   disc |-> <<>>, list |-> <<>>, ai |-> 0,
   cont |-> "", rdir |-> NoDir, smtime |-> Undef, parsed |-> NoParsed, top |-> <<>>,
   exdir |-> NoDir, scriptPath |-> <<>>,
   rawArgs |-> NoArgs, scriptArgs |-> <<>>, maxOutput |-> 0,
   command |-> <<>>, execArgs |-> <<>>, child |-> NoChild,
   text |-> <<>>, file |-> NoFile, turn |-> NoTurn,
   result |-> NoResult,
   \* history of the call, for stating properties
   startEpoch |-> 0, doneEpoch |-> 0, hit |-> FALSE, staleAtStart |-> FALSE,
   firstStat |-> "none", cachedAtStat |-> NoText,
   mapAtStart |-> [n \in AllNames |-> NoSkill],
   mtAtStart |-> [n \in AllNames |-> Undef], forced |-> FALSE, forcedReparse |-> FALSE,
   reparses |-> 0, rediscovers |-> 0, wrote |-> FALSE, overlapped |-> FALSE,
   delegated |-> FALSE, allowed |-> {}, spawned |-> FALSE, spawns |-> 0]

\* the call is over: drop the locals, keep the result and the history
Done(tk, res) ==
  [tk EXCEPT !.pc = "done", !.result = res, !.doneEpoch = epoch,
             !.disc = <<>>, !.list = <<>>, !.ai = 0, !.cont = "",
             !.rdir = NoDir, !.smtime = Undef, !.parsed = NoParsed, !.top = <<>>,
             !.exdir = NoDir]

InFlight(tk) == tk.pc \notin {"idle", "done"}

(***************************************************************************)
(* discoverSkills(root): readdir, then per folder stat, read, list, list.  *)
(***************************************************************************)
\* the include and exclude tests of discoverSkills
PassesFilter(folder) ==
  /\ (filterOpts.includeGiven /\ filterOpts.include # {}) => folder \in filterOpts.include
  /\ folder \notin filterOpts.exclude

\* the next folder at or after index e that passes the filters, or 0
RECURSIVE NextEntry(_)
NextEntry(e) ==
  IF e > Len(FolderOrder) THEN 0
  ELSE IF PassesFilter(FolderOrder[e]) THEN e ELSE NextEntry(e + 1)

\* continue the for loop of discoverSkills at entry e
DiscAdvance(dc, e) ==
  LET n == NextEntry(e)
  IN IF n = 0 THEN [dc EXCEPT !.pc = "done", !.e = 0, !.parsed = NoParsed, !.top = <<>>]
     ELSE [dc EXCEPT !.pc = "stat", !.e = n, !.parsed = NoParsed, !.top = <<>>]

DiscDir(i, dc) == <<resolvedDirs[i], FolderOrder[dc.e]>>

\* Promise.all(resolvedDirs.map(d => discoverSkills(d, filterOpts)))
StartDiscovery == [i \in 1..Len(resolvedDirs) |-> [NoDisc EXCEPT !.pc = "readdir"]]

RECURSIVE Flat(_)
\* nested.flat()
Flat(disc) == IF disc = <<>> THEN <<>> ELSE Head(disc).acc \o Flat(Tail(disc))

DiscReaddir(t, i) ==
  /\ task[t].pc = "disc"
  /\ i \in DOMAIN task[t].disc
  /\ task[t].disc[i].pc = "readdir"
  /\ task' = [task EXCEPT ![t].disc[i] = DiscAdvance(@, 1)]
  /\ UNCHANGED <<platform, drives, resolvedDirs, filterOpts, limits, disk, epoch, skillsMap, mtimes, calls>>

DiscStat(t, i) ==
  /\ task[t].pc = "disc"
  /\ i \in DOMAIN task[t].disc
  /\ task[t].disc[i].pc = "stat"
  /\ LET dc == task[t].disc[i]
     IN task' = [task EXCEPT ![t].disc[i] =
                   IF ManifestIsFile(DiscDir(i, dc))
                   THEN [dc EXCEPT !.pc = "read"]
                   ELSE DiscAdvance(dc, dc.e + 1)]
  /\ UNCHANGED <<platform, drives, resolvedDirs, filterOpts, limits, disk, epoch, skillsMap, mtimes, calls>>

\* parseSkillFile is not inside a try: a failed readFile rejects discoverSkills,
\* Promise.all and the caller
DiscRead(t, i) ==
  /\ task[t].pc = "disc"
  /\ i \in DOMAIN task[t].disc
  /\ task[t].disc[i].pc = "read"
  /\ LET dc == task[t].disc[i]
         d == DiscDir(i, dc)
     IN task' = IF disk[d].present
                THEN [task EXCEPT ![t].disc[i] =
                        [dc EXCEPT !.pc = "top", !.parsed = parseSkillFile(d)]]
                ELSE [task EXCEPT ![t] = Done(task[t], Rejected)]
  /\ UNCHANGED <<platform, drives, resolvedDirs, filterOpts, limits, disk, epoch, skillsMap, mtimes, calls>>

DiscTop(t, i) ==
  /\ task[t].pc = "disc"
  /\ i \in DOMAIN task[t].disc
  /\ task[t].disc[i].pc = "top"
  /\ LET dc == task[t].disc[i]
     IN task' = [task EXCEPT ![t].disc[i] =
                   [dc EXCEPT !.pc = "sub", !.top = collectScripts(disk[DiscDir(i, dc)].top)]]
  /\ UNCHANGED <<platform, drives, resolvedDirs, filterOpts, limits, disk, epoch, skillsMap, mtimes, calls>>

DiscSub(t, i) ==
  /\ task[t].pc = "disc"
  /\ i \in DOMAIN task[t].disc
  /\ task[t].disc[i].pc = "sub"
  /\ LET dc == task[t].disc[i]
         d == DiscDir(i, dc)
         skill == MakeSkill(dc.parsed, FolderOrder[dc.e], d, dc.top,
                            collectScripts(disk[d].sub))
     IN task' = [task EXCEPT ![t].disc[i] =
                   DiscAdvance([dc EXCEPT !.acc = Append(@, skill)], dc.e + 1)]
  /\ UNCHANGED <<platform, drives, resolvedDirs, filterOpts, limits, disk, epoch, skillsMap, mtimes, calls>>

(***************************************************************************)
(* executeScript.                                                          *)
(***************************************************************************)
DirSegs(d) == <<d[1], d[2]>>

\* win32: a script such as "r:x" names x relative to the current directory of
\* drive r; path.isAbsolute is false for it
DriveRelative(script) ==
  /\ platform = "win32"
  /\ Len(script) >= 2
  /\ script[1] \in Letters
  /\ script[2] = ":"

\* the current directory of the drive a drive-relative script names
DriveCwd(script) == <<script[1], "cwd">>

\* the segments resolve appends for the rest of the script: "" and "." name
\* the directory itself
RestSegs(rest) == IF rest \in {<<>>, <<".">>} THEN <<>> ELSE <<rest>>

\* path.resolve(resolvedSkillDir, script) for a simple filename
candidateRoot(d, script) ==
  IF DriveRelative(script)
  THEN DriveCwd(script) \o RestSegs(SubSeq(script, 3, Len(script)))
  ELSE DirSegs(d) \o RestSegs(script)

\* path.resolve(resolvedSkillDir, 'scripts', script) for a simple filename
candidateScripts(d, script) ==
  IF DriveRelative(script)
  THEN DriveCwd(script) \o <<ScriptsDirName>> \o RestSegs(SubSeq(script, 3, Len(script)))
  ELSE DirSegs(d) \o <<ScriptsDirName>> \o RestSegs(script)

\* access(filePath, R_OK) succeeds: for a file and for a directory alike
fileExists(p) ==
  LET d == <<p[1], p[2]>>
  IN \/ /\ d \in AllDirs
        /\ \/ Len(p) = 2
           \/ Len(p) = 3 /\ \/ p[3] \in disk[d].top
                            \/ p[3] = SKILL_FILENAME /\ disk[d].present
                            \/ p[3] = ScriptsDirName /\ disk[d].sub # {}
           \/ Len(p) = 4 /\ p[3] = ScriptsDirName /\ p[4] \in disk[d].sub
     \/ /\ Len(p) = 2
        /\ p[2] = "cwd"
        /\ p[1] \in drives

\* the path names a directory
IsDirectory(p) ==
  \/ Len(p) = 2
  \/ Len(p) = 3 /\ p[3] = ScriptsDirName

\* scriptPath === resolvedSkillDir || scriptPath.startsWith(resolvedSkillDir + sep)
ContainmentOk(scriptPath, d) ==
  \/ scriptPath = DirSegs(d)
  \/ Len(scriptPath) > 2 /\ SubSeq(scriptPath, 1, 2) = DirSegs(d)

\* String.prototype.toLowerCase on one character
LowerChar(c) ==
  CASE c = "C" -> "c" [] c = "J" -> "j" [] c = "S" -> "s" [] OTHER -> c

\* path.extname(scriptPath).toLowerCase(): from the last dot of the last
\* segment, nothing when that dot leads the segment or there is none
extname(scriptPath) ==
  LET base == IF Len(scriptPath) <= 2 THEN <<>> ELSE scriptPath[Len(scriptPath)]
      k == LastIndexOfDot(base, Len(base))
  IN IF k <= 1 THEN <<>>
     ELSE [i \in 1..(Len(base) - k + 1) |-> LowerChar(base[k + i - 1])]

\* resolveCommand with the arguments joined into one command line and split
\* again at blanks, as a shell would
resolveCommand_Shell(scriptPath, args) ==
  LET words == IF \E i \in 1..Len(args) : args[i] = "a b"
               THEN <<"a", "b">> ELSE args
  IN [command |-> <<"sh">>, execArgs |-> <<scriptPath>> \o words]

\* resolveCommand(scriptPath, args)
resolveCommand(scriptPath, args) ==
  LET ext == extname(scriptPath)
  IN IF ext \in {<<".", "m", "j", "s">>, <<".", "j", "s">>}
     THEN [command |-> <<"node">>, execArgs |-> <<scriptPath>> \o args]
     ELSE IF ext = <<".", "s", "h">>
     THEN [command |-> <<"bash">>, execArgs |-> <<scriptPath>> \o args]
     ELSE [command |-> scriptPath, execArgs |-> args]

\* executeScript up to its first await
ExecEntry(tk, d) ==
  IF ~isSimpleFilename(tk.script, platform)
  THEN Done(tk, fail("ScriptNotAllowed", NoMessage))
  ELSE [tk EXCEPT !.pc = "ex_root", !.exdir = d]

\* from the resolved scriptPath to execFile
ExecSpawn(tk, scriptPath) ==
  IF ~ContainmentOk(scriptPath, tk.exdir)
  THEN Done(tk, fail("ScriptNotAllowed", NoMessage))
  ELSE LET cmd == resolveCommand(scriptPath, tk.scriptArgs)
       IN [tk EXCEPT !.pc = "ex_run", !.scriptPath = scriptPath, !.spawned = TRUE,
                     !.spawns = @ + 1,
                     !.command = cmd.command, !.execArgs = cmd.execArgs]

ExecCheckRoot(t) ==
  /\ task[t].pc = "ex_root"
  /\ LET tk == task[t]
         p == candidateRoot(tk.exdir, tk.script)
     IN task' = [task EXCEPT ![t] =
                   IF fileExists(p) THEN ExecSpawn(tk, p) ELSE [tk EXCEPT !.pc = "ex_sub"]]
  /\ UNCHANGED <<platform, drives, resolvedDirs, filterOpts, limits, disk, epoch, skillsMap, mtimes, calls>>

ExecCheckScripts(t) ==
  /\ task[t].pc = "ex_sub"
  /\ LET tk == task[t]
         p == candidateScripts(tk.exdir, tk.script)
     IN task' = [task EXCEPT ![t] =
                   IF fileExists(p) THEN ExecSpawn(tk, p)
                   ELSE Done(tk, fail("ScriptNotFound", NoMessage))]
  /\ UNCHANGED <<platform, drives, resolvedDirs, filterOpts, limits, disk, epoch, skillsMap, mtimes, calls>>

\* the child exits with 0, exits with 1, or is still running at the timeout
ChildOutcomes ==
  { Outcome("exit0", <<"a">>, <<>>),
    Outcome("exitNonzero", <<>>, ChildStderr),
    Outcome("timeout", <<"a">>, ChildStderr) }

\* every ending, with little or much output
AllChildOutcomes ==
  { [Outcome(how, out, err) EXCEPT !.code = c] :
      how \in Endings, out \in {<<>>, <<"a", "a">>}, err \in {<<>>, ChildStderr},
      c \in {NullCode, 0, 1, SpawnErrno} }

(***************************************************************************)
(* Captured output is a sequence of characters; each is named by the       *)
(* number of bytes of its UTF-8 encoding.                                  *)
(***************************************************************************)
OutChars == {"a", "e2", "e3", "e4"}
REPLACEMENT == "FFFD"
TRUNCATION_MARKER == "[output truncated]"
MarkerLen == 19

\* Buffer.from(c, 'utf-8').length
Utf8Len(c) ==
  CASE c = "a" -> 1
    [] c = "e2" -> 2
    [] c = "e3" -> 3
    [] c = "e4" -> 4
    [] c = REPLACEMENT -> 3
    [] c = TRUNCATION_MARKER -> MarkerLen

\* Buffer.from(output, 'utf-8').length
RECURSIVE ByteLength(_)
ByteLength(output) ==
  IF output = <<>> THEN 0 ELSE Utf8Len(Head(output)) + ByteLength(Tail(output))

\* the number of characters whose bytes all lie in the first maxBytes bytes
RECURSIVE WholeChars(_, _)
WholeChars(output, maxBytes) ==
  IF output = <<>> \/ Utf8Len(Head(output)) > maxBytes THEN 0
  ELSE 1 + WholeChars(Tail(output), maxBytes - Utf8Len(Head(output)))

\* buf.subarray(0, maxBytes).toString('utf-8'): the bytes of a character cut
\* by the boundary decode to one U+FFFD
DecodePrefix(output, maxBytes) ==
  LET k == WholeChars(output, maxBytes)
      whole == SubSeq(output, 1, k)
  IN IF ByteLength(whole) < maxBytes /\ k < Len(output)
     THEN Append(whole, REPLACEMENT)
     ELSE whole

\* capOutput(output, maxBytes)
capOutput(output, maxBytes) ==
  IF ByteLength(output) <= maxBytes THEN output
  ELSE Append(DecodePrefix(output, maxBytes), TRUNCATION_MARKER)

\* maxBuffer: maxOutput * 2
maxBuffer(maxOutput) == maxOutput * 2

\* what execFile can hand to the callback: a stream that passed maxBuffer is
\* cut there and ends the child with the maxBuffer error; a child that could
\* not be started wrote nothing
CapturedOk(outcome, maxOutput) ==
  /\ outcome.code \in CodesOf(outcome.how)
  /\ outcome.how = "maxBuffer" =>
       \/ ByteLength(outcome.out) >= maxBuffer(maxOutput)
       \/ ByteLength(outcome.err) >= maxBuffer(maxOutput)
  /\ outcome.how # "maxBuffer" =>
       /\ ByteLength(outcome.out) <= maxBuffer(maxOutput)
       /\ ByteLength(outcome.err) <= maxBuffer(maxOutput)
  /\ outcome.how = "spawnError" => outcome.out = <<>> /\ outcome.err = <<>>

\* the error execFile passes to its callback: null after exit code 0 without
\* an earlier error; killed is set when execFile's own timer signalled the
\* child; the maxBuffer error and a spawn error carry a code and no killed
\* property
ExecFileError(outcome) ==
  [isError |-> outcome.how \notin {"exit0", "trapExit0"},
   killed |-> outcome.how \in {"timeout", "trapExitNonzero"},
   code |-> CASE outcome.how \in {"exitNonzero", "trapExitNonzero"} -> "1"
              [] outcome.how = "maxBuffer" -> "ERR_CHILD_PROCESS_STDIO_MAXBUFFER"
              [] outcome.how = "spawnError" -> "ENOENT"
              [] OTHER -> "null"]

\* child.exitCode ?? error.status ?? -1
ExitCodeOf(outcome) == IF outcome.code # NullCode THEN outcome.code ELSE -1

\* the timeout test, taking the maxBuffer error for a timeout as well
IsTimeoutError_OrMaxBuffer(error) ==
  error.killed \/ error.code \in {"ETIMEDOUT", "ERR_CHILD_PROCESS_STDIO_MAXBUFFER"}

\* error.killed || error.code === 'ETIMEDOUT'
IsTimeoutError(error) == error.killed \/ error.code = "ETIMEDOUT"

\* resolve({success: false, stdout: '', stderr: '', exitCode: -1, error: 'ExecutionTimeout'})
TimeoutResult == fail("ExecutionTimeout", NoMessage)

\* the execFile callback's result
CallbackResult(outcome, maxOutput) ==
  LET cappedStdout == capOutput(outcome.out, maxOutput)
      cappedStderr == capOutput(outcome.err, maxOutput)
      error == ExecFileError(outcome)
  IN IF error.isError
     THEN IF IsTimeoutError(error)
          THEN TimeoutResult
          ELSE [fail("ExecutionFailed", StderrText(cappedStderr)) EXCEPT
                  !.stdout = cappedStdout, !.exitCode = ExitCodeOf(outcome)]
     ELSE [Success(cappedStdout) EXCEPT !.stderr = StderrText(cappedStderr)]

\* execFile's timer fires while the child runs: kill() sends the default
\* killSignal, SIGTERM, which the child may catch or ignore
TimeoutKill(t) ==
  /\ task[t].pc = "ex_run"
  /\ ~IsDirectory(task[t].scriptPath)
  /\ task' = [task EXCEPT ![t].pc = "ex_term"]
  /\ UNCHANGED <<platform, drives, resolvedDirs, filterOpts, limits, disk, epoch, skillsMap, mtimes, calls>>

\* the child ignores the signal and runs on: no exit, so no callback
ChildIgnoresSignal(t) ==
  /\ task[t].pc = "ex_term"
  /\ task' = [task EXCEPT ![t].pc = "ex_hung"]
  /\ UNCHANGED <<platform, drives, resolvedDirs, filterOpts, limits, disk, epoch, skillsMap, mtimes, calls>>

\* the execFile callback
ChildExit(t, outcome) ==
  /\ task[t].pc \in {"ex_run", "ex_term"}
  /\ outcome.how \in EndingsAt(task[t].pc)
  /\ CapturedOk(outcome, task[t].maxOutput)
  /\ IsDirectory(task[t].scriptPath) => outcome.how = "spawnError"
  /\ task' = [task EXCEPT ![t] =
       Done([task[t] EXCEPT !.child = outcome],
            CallbackResult(outcome, task[t].maxOutput))]
  /\ UNCHANGED <<platform, drives, resolvedDirs, filterOpts, limits, disk, epoch, skillsMap, mtimes, calls>>

(***************************************************************************)
(* The registry: addSkills, refreshIfStale, rediscover, handleToolCall.    *)
(***************************************************************************)
NotFoundMessage(skillName, map) ==
  [text |-> "not found", quoted |-> <<skillName>>, available |-> skillNamesOf(map),
   raw |-> <<>>]

NotRegisteredMessage(script, skill) ==
  [text |-> "not registered", quoted |-> script, available |-> SeqRange(skill.scripts),
   raw |-> <<>>]

\* the mtime test of refreshIfStale, with >= in place of ===
MtimeUnchanged_Gte(cached, mtimeMs) == cached # Undef /\ mtimeMs >= cached

\* cached !== undefined && s.mtimeMs === cached
MtimeUnchanged(cached, mtimeMs) == cached # Undef /\ mtimeMs = cached

\* refreshIfStale up to its stat; the skill is in the map
RefreshEntry(tk, map, cont) ==
  [tk EXCEPT !.pc = "rs_stat", !.cont = cont, !.rdir = map[tk.skillName].dirPath]

\* use_skill hands the call to executeScript
Delegate(tk, map) ==
  ExecEntry([tk EXCEPT !.delegated = TRUE, !.maxOutput = MaxCap,
                       !.allowed = SeqRange(map[tk.skillName].scripts)],
            map[tk.skillName].dirPath)

\* mtimes.delete(skillName) left out
ForceReparse_Keep(mt, skillName) == mt

\* mtimes.delete(skillName)
ForceReparse(mt, skillName) == [mt EXCEPT ![skillName] = Undef]

\* the handler forcing a second re-parse when the script is still not listed
Resume_ThirdReparse(tk, map, mt) ==
  LET skill == map[tk.skillName]
  IN CASE tk.cont = "load" ->
            [tk |-> Done(tk, Success(skill.content)), mt |-> mt]
       [] tk.cont = "use1" ->
            IF ~ScriptsIncludes(skill, tk.script)
            THEN [tk |-> RefreshEntry([tk EXCEPT !.forced = TRUE], map, "use2"),
                  mt |-> ForceReparse(mt, tk.skillName)]
            ELSE [tk |-> Delegate(tk, map), mt |-> mt]
       [] tk.cont = "use2" ->
            IF ~ScriptsIncludes(skill, tk.script)
            THEN [tk |-> RefreshEntry(tk, map, "use3"),
                  mt |-> ForceReparse(mt, tk.skillName)]
            ELSE [tk |-> Delegate(tk, map), mt |-> mt]
       [] OTHER ->
            IF ~ScriptsIncludes(skill, tk.script)
            THEN [tk |-> Done(tk, fail("ScriptNotAllowed",
                                       NotRegisteredMessage(tk.script, skill))),
                  mt |-> mt]
            ELSE [tk |-> Delegate(tk, map), mt |-> mt]

\* the handler after an awaited refreshIfStale returned
Resume(tk, map, mt) ==
  LET skill == map[tk.skillName]
  IN CASE tk.cont = "load" ->
            [tk |-> Done(tk, Success(skill.content)), mt |-> mt]
       [] tk.cont = "use1" ->
            IF ~ScriptsIncludes(skill, tk.script)
            THEN [tk |-> RefreshEntry([tk EXCEPT !.forced = TRUE], map, "use2"),
                  mt |-> ForceReparse(mt, tk.skillName)]
            ELSE [tk |-> Delegate(tk, map), mt |-> mt]
       [] OTHER ->
            IF ~ScriptsIncludes(skill, tk.script)
            THEN [tk |-> Done(tk, fail("ScriptNotAllowed",
                                       NotRegisteredMessage(tk.script, skill))),
                  mt |-> mt]
            ELSE [tk |-> Delegate(tk, map), mt |-> mt]

\* the catch of refreshIfStale, dropping the entry
KeepExisting_Evict(map, skillName) == [map EXCEPT ![skillName] = NoSkill]

\* catch { /* stat/parse failed - keep existing */ }
KeepExisting(map, skillName) == map

NoteStat(tk, outcome) ==
  IF tk.firstStat = "none"
  THEN [tk EXCEPT !.firstStat = outcome, !.cachedAtStat = skillsMap[tk.skillName].content]
  ELSE tk

RefreshStat(t) ==
  /\ task[t].pc = "rs_stat"
  /\ LET tk == task[t]
         d == tk.rdir
         n == tk.skillName
     IN IF ~ManifestIsFile(d)
        THEN LET kept == KeepExisting(skillsMap, n)
                 r == Resume(NoteStat(tk, "fail"), kept, mtimes)
             IN task' = [task EXCEPT ![t] = r.tk] /\ mtimes' = r.mt /\ skillsMap' = kept
        ELSE IF MtimeUnchanged(mtimes[n], CurMtime(d))
        THEN LET r == Resume(NoteStat(tk, "eq"), skillsMap, mtimes)
             IN task' = [task EXCEPT ![t] = r.tk] /\ mtimes' = r.mt
                /\ skillsMap' = skillsMap
        ELSE /\ task' = [task EXCEPT ![t] =
                  [NoteStat(tk, "neq") EXCEPT !.pc = "ld_read", !.smtime = CurMtime(d),
                                              !.reparses = @ + 1,
                                              !.forcedReparse = (tk.cont = "use2")]]
             /\ mtimes' = mtimes
             /\ skillsMap' = skillsMap
  /\ UNCHANGED <<platform, drives, resolvedDirs, filterOpts, limits, disk, epoch, calls>>

\* loadSkill reads the manifest; a failure is caught by refreshIfStale
LoadRead(t) ==
  /\ task[t].pc = "ld_read"
  /\ LET tk == task[t]
     IN IF disk[tk.rdir].present
        THEN /\ task' = [task EXCEPT ![t] =
                  [tk EXCEPT !.pc = "ld_top", !.parsed = parseSkillFile(tk.rdir)]]
             /\ mtimes' = mtimes
             /\ skillsMap' = skillsMap
        ELSE LET kept == KeepExisting(skillsMap, tk.skillName)
                 r == Resume(tk, kept, mtimes)
             IN task' = [task EXCEPT ![t] = r.tk] /\ mtimes' = r.mt /\ skillsMap' = kept
  /\ UNCHANGED <<platform, drives, resolvedDirs, filterOpts, limits, disk, epoch, calls>>

LoadTop(t) ==
  /\ task[t].pc = "ld_top"
  /\ task' = [task EXCEPT ![t].pc = "ld_sub",
                          ![t].top = collectScripts(disk[task[t].rdir].top)]
  /\ UNCHANGED <<platform, drives, resolvedDirs, filterOpts, limits, disk, epoch, skillsMap, mtimes, calls>>

\* loadSkill(dirPath, skillName): the skill of that one directory
loadSkill(parsed, skillName, d, top, sub) == MakeSkill(parsed, skillName, d, top, sub)

\* refreshIfStale forgetting to store the re-parsed skill
RefreshedMap_Keep(map, skillName, updated) == map

\* skillsMap.set(skillName, updated)
RefreshedMap(map, skillName, updated) == [map EXCEPT ![skillName] = updated]

\* mtimes.set(skillName, s.mtimeMs)
RefreshedMtimes(mt, skillName, mtimeMs) == [mt EXCEPT ![skillName] = mtimeMs]

LoadSub(t) ==
  /\ task[t].pc = "ld_sub"
  /\ LET tk == task[t]
         n == tk.skillName
         updated == loadSkill(tk.parsed, n, tk.rdir, tk.top,
                              collectScripts(disk[tk.rdir].sub))
         map == RefreshedMap(skillsMap, n, updated)
         r == Resume([tk EXCEPT !.wrote = TRUE], map, RefreshedMtimes(mtimes, n, tk.smtime))
     IN /\ skillsMap' = map
        /\ mtimes' = r.mt
        /\ task' = [task EXCEPT ![t] = r.tk]
  /\ UNCHANGED <<platform, drives, resolvedDirs, filterOpts, limits, disk, epoch, calls>>

\* skillsMap.has(skill.name), never true
HasSkill_Never(map, name) == FALSE

\* skillsMap.has(skill.name)
HasSkill(map, name) == map[name] # NoSkill

RECURSIVE AddLoop(_, _, _)
\* the for loop of addSkills setting every skill of the list, known or not
AddLoop_Overwrite(list, i, map) ==
  IF i > Len(list) THEN [map |-> map, ai |-> i]
  ELSE [map |-> [map EXCEPT ![list[i].name] = list[i]], ai |-> i]

\* the for loop of addSkills from index i up to its next await: duplicates are
\* skipped, the first new skill is set in the map
AddLoop(list, i, map) ==
  IF i > Len(list) THEN [map |-> map, ai |-> i]
  ELSE IF HasSkill(map, list[i].name) THEN AddLoop(list, i + 1, map)
  ELSE [map |-> [map EXCEPT ![list[i].name] = list[i]], ai |-> i]

\* load_skill answering from the lookup it made before rediscover()
AfterAdd_StaleLookup(tk, map) ==
  IF tk.op = "create" THEN Done(tk, Success(NoText))
  ELSE Done(tk, fail("SkillNotFound", NotFoundMessage(tk.skillName, map)))

\* the caller of addSkills once it returned
AfterAdd(tk, map) ==
  IF tk.op = "create" THEN Done(tk, Success(NoText))
  ELSE IF map[tk.skillName] = NoSkill
  THEN Done(tk, fail("SkillNotFound", NotFoundMessage(tk.skillName, map)))
  ELSE Done(tk, Success(map[tk.skillName].content))

AddContinue(tk, list, r) ==
  IF r.ai > Len(list) THEN AfterAdd(tk, r.map)
  ELSE [tk EXCEPT !.pc = "add_stat", !.disc = <<>>, !.list = list, !.ai = r.ai]

\* Promise.all resolved: addSkills(nested.flat()) starts
AddSkillsStart(t) ==
  /\ task[t].pc = "disc"
  /\ \A i \in DOMAIN task[t].disc : task[t].disc[i].pc = "done"
  /\ LET list == Flat(task[t].disc)
         r == AddLoop(list, 1, skillsMap)
     IN /\ skillsMap' = r.map
        /\ task' = [task EXCEPT ![t] = AddContinue(task[t], list, r)]
  /\ UNCHANGED <<platform, drives, resolvedDirs, filterOpts, limits, disk, epoch, mtimes, calls>>

\* the stat of addSkills for the skill just set, then the loop goes on
AddSkillsStat(t) ==
  /\ task[t].pc = "add_stat"
  /\ LET tk == task[t]
         skill == tk.list[tk.ai]
         r == AddLoop(tk.list, tk.ai + 1, skillsMap)
     IN /\ mtimes' = IF ManifestIsFile(skill.dirPath)
                     THEN [mtimes EXCEPT ![skill.name] = CurMtime(skill.dirPath)]
                     ELSE mtimes
        /\ skillsMap' = r.map
        /\ task' = [task EXCEPT ![t] = AddContinue(tk, tk.list, r)]
  /\ UNCHANGED <<platform, drives, resolvedDirs, filterOpts, limits, disk, epoch, calls>>

ProviderReady == task["ctor"].pc = "done" /\ ~task["ctor"].result.rejected

CanCall(t) ==
  /\ t \in limits.callers
  /\ ProviderReady
  /\ task[t].pc \in {"idle", "done"}
  /\ (t = "t2" => task["t1"].pc # "idle")
  /\ calls < limits.calls

\* a fresh call record; a call on a name another call is working on overlaps it
NewCall(t, op, skillName, script) ==
  [Idle EXCEPT !.op = op, !.skillName = skillName, !.script = script,
               !.startEpoch = epoch,
               !.mapAtStart = skillsMap, !.mtAtStart = mtimes,
               !.hit = skillsMap[skillName] # NoSkill,
               !.staleAtStart =
                  /\ skillsMap[skillName] # NoSkill
                  /\ ManifestIsFile(skillsMap[skillName].dirPath)
                  /\ mtimes[skillName] # CurMtime(skillsMap[skillName].dirPath),
               !.overlapped = \E u \in Callers \ {t} :
                  InFlight(task[u]) /\ task[u].skillName = skillName]

MarkOverlap(t, skillName, tk) ==
  [u \in Tasks |->
     IF u = t THEN tk
     ELSE IF u \in Callers /\ InFlight(task[u]) /\ task[u].skillName = skillName
          THEN [task[u] EXCEPT !.overlapped = TRUE]
          ELSE task[u]]

\* handleToolCall('load_skill', {skill})
CallLoadSkill(t, skillName) ==
  /\ CanCall(t)
  /\ skillName \in AllNames
  /\ LET tk == NewCall(t, "load_skill", skillName, <<>>)
     IN task' = MarkOverlap(t, skillName,
          IF skillsMap[skillName] # NoSkill
          THEN RefreshEntry(tk, skillsMap, "load")
          ELSE [tk EXCEPT !.pc = "disc", !.disc = StartDiscovery, !.rediscovers = @ + 1])
  /\ calls' = calls + 1
  /\ UNCHANGED <<platform, drives, resolvedDirs, filterOpts, limits, disk, epoch, skillsMap, mtimes>>

ArgShapes == {ArgArray(<<>>), ArgOther("string")}
ArgValues ==
  ArgShapes \cup
  { ArgArray(<<StrItem>>), ArgArray(<<NumItem>>), ArgArray(<<StrItem, NumItem>>),
    ArgOther("number"), ArgOther("object"), ArgOther("undefined"), ArgOther("null") }

\* Array.isArray(rawArgs)
IsArray(rawArgs) == rawArgs.kind = "array"

\* rawArgs.map(String)
RECURSIVE MapString(_)
MapString(items) ==
  IF items = <<>> THEN <<>> ELSE <<Head(items).v>> \o MapString(Tail(items))

\* the InvalidArgs test, refusing every value that is not an array
ArgsRejected_NotArray(rawArgs) == ~IsArray(rawArgs)

\* !Array.isArray(rawArgs) && rawArgs !== undefined && rawArgs !== null
ArgsRejected(rawArgs) ==
  ~IsArray(rawArgs) /\ rawArgs.kind \notin {"undefined", "null"}

\* scriptArgs when the call goes on
ScriptArgsOf(rawArgs) == IF IsArray(rawArgs) THEN MapString(rawArgs.items) ELSE <<>>
UseScripts == {R_JS, N_SH, ScriptsDirName \o <<"/">> \o H_JS}

\* use_skill looking the skill up before it tests the args
CallUseSkill_LookupFirst(t, skillName, script, args) ==
  /\ CanCall(t)
  /\ skillName \in AllNames
  /\ script \in UseScripts
  /\ args \in ArgValues
  /\ LET tk == [NewCall(t, "use_skill", skillName, script) EXCEPT
                  !.rawArgs = args, !.scriptArgs = ScriptArgsOf(args)]
     IN task' =
          IF skillsMap[skillName] = NoSkill
          THEN [task EXCEPT ![t] = Done(tk, fail("SkillNotFound", NoMessage))]
          ELSE IF ArgsRejected(args)
          THEN [task EXCEPT ![t] = Done(tk, fail("InvalidArgs", NoMessage))]
          ELSE MarkOverlap(t, skillName, RefreshEntry(tk, skillsMap, "use1"))
  /\ calls' = calls + 1
  /\ UNCHANGED <<platform, drives, resolvedDirs, filterOpts, limits, disk, epoch, skillsMap, mtimes>>

\* handleToolCall('use_skill', {skill, script, args})
CallUseSkill(t, skillName, script, args) ==
  /\ CanCall(t)
  /\ skillName \in AllNames
  /\ script \in UseScripts
  /\ args \in ArgValues
  /\ LET tk == [NewCall(t, "use_skill", skillName, script) EXCEPT
                  !.rawArgs = args, !.scriptArgs = ScriptArgsOf(args)]
     IN task' =
          IF ArgsRejected(args)
          THEN [task EXCEPT ![t] = Done(tk, fail("InvalidArgs", NoMessage))]
          ELSE IF skillsMap[skillName] = NoSkill
          THEN [task EXCEPT ![t] = Done(tk, fail("SkillNotFound", NoMessage))]
          ELSE MarkOverlap(t, skillName, RefreshEntry(tk, skillsMap, "use1"))
  /\ calls' = calls + 1
  /\ UNCHANGED <<platform, drives, resolvedDirs, filterOpts, limits, disk, epoch, skillsMap, mtimes>>

\* tool names that are neither 'load_skill' nor 'use_skill'
OtherToolNames == {"unknown_tool", "Load_Skill"}

UnknownToolMessage(name) ==
  [text |-> "Unknown tool", quoted |-> <<name>>,
   available |-> {"load_skill", "use_skill"}, raw |-> <<>>]

\* the UnknownTool result without the name
UnknownToolResult_NoName(name) == fail("UnknownTool", NoMessage)

\* fail('UnknownTool', `Unknown tool: ${name}. Available: load_skill, use_skill`)
UnknownToolResult(name) == fail("UnknownTool", UnknownToolMessage(name))

\* handleToolCall with any other tool name
CallUnknownTool(t, name) ==
  /\ CanCall(t)
  /\ name \in OtherToolNames
  /\ task' = [task EXCEPT ![t] =
       Done(NewCall(t, name, "zeta", <<>>), UnknownToolResult(name))]
  /\ calls' = calls + 1
  /\ UNCHANGED <<platform, drives, resolvedDirs, filterOpts, limits, disk, epoch, skillsMap, mtimes>>

(***************************************************************************)
(* The registry specification: one root, one caller, calls in sequence.    *)
(***************************************************************************)
EmptyDir == [present |-> FALSE, hist |-> <<>>, fmname |-> "", top |-> {}, sub |-> {}]

\* the disk the provider is constructed on
InitDisk ==
  [d \in AllDirs |->
     IF d = <<"rA", "alpha">>
     THEN [present |-> TRUE, hist |-> <<1>>, fmname |-> "", top |-> {R_JS, D_MD},
           sub |-> {H_JS}]
     ELSE EmptyDir]

\* what the outside world may have done to the disk since construction
DriftedDisks ==
  { InitDisk,
    [InitDisk EXCEPT ![<<"rA", "alpha">>].hist = <<1, 2>>],
    [InitDisk EXCEPT ![<<"rA", "beta">>] = [EmptyDir EXCEPT !.present = TRUE, !.hist = <<1>>]] }

\* discoverSkills over every root, in root order, on a disk dk nobody is writing
RECURSIVE SnapshotList(_, _, _)
SnapshotList(dk, i, e) ==
  IF i > Len(resolvedDirs) THEN <<>>
  ELSE IF e > Len(FolderOrder) THEN SnapshotList(dk, i + 1, 1)
  ELSE LET d == <<resolvedDirs[i], FolderOrder[e]>>
       IN (IF PassesFilter(FolderOrder[e]) /\ dk[d].present
           THEN <<MakeSkill(ParseManifest(dk[d], d), FolderOrder[e], d,
                            collectScripts(dk[d].top), collectScripts(dk[d].sub))>>
           ELSE <<>>) \o SnapshotList(dk, i, e + 1)

\* addSkills run to its end on that list
RECURSIVE SnapshotMap(_, _, _)
SnapshotMap(list, i, map) ==
  LET r == AddLoop(list, i, map)
  IN IF r.ai > Len(list) THEN r.map ELSE SnapshotMap(list, r.ai + 1, r.map)

\* the provider as createSkillsProvider returns it when the disk dk was not
\* written during construction
InitConstructed(dk) ==
  /\ epoch = 0
  /\ skillsMap = SnapshotMap(SnapshotList(dk, 1, 1), 1, [n \in AllNames |-> NoSkill])
  /\ mtimes = [n \in AllNames |->
                 IF skillsMap[n] = NoSkill THEN Undef
                 ELSE dk[skillsMap[n].dirPath].hist[Len(dk[skillsMap[n].dirPath].hist)]]
  /\ task = [t \in Tasks |->
               IF t = "ctor" THEN Done([Idle EXCEPT !.op = "create"], Success(NoText))
               ELSE Idle]
  /\ calls = 0

Init ==
  /\ platform = "posix"
  /\ drives = {}
  /\ limits = [events |-> MaxDiskEvents, calls |-> MaxCalls, callers |-> {"t1"}]
  /\ resolvedDirs = <<"rA">>
  /\ filterOpts = [includeGiven |-> FALSE, include |-> {}, exclude |-> {}]
  /\ disk \in DriftedDisks
  /\ InitConstructed(InitDisk)

MtimeRange == 1..(MaxDiskEvents + MaxConcEvents + 2)
RootIndexes == 1..Cardinality(AllRoots)

DiskEvent ==
  \E d \in AllDirs :
    \/ \E m \in MtimeRange, nm \in FmNames : WriteManifest(d, m, nm)
    \/ RemoveManifest(d)
    \/ \E f \in AddableTop : AddScript(d, f)
    \/ \E f \in Removable : RemoveScript(d, f)

Discovery ==
  \E t \in Tasks :
    \/ \E i \in RootIndexes :
         DiscReaddir(t, i) \/ DiscStat(t, i) \/ DiscRead(t, i) \/ DiscTop(t, i) \/ DiscSub(t, i)
    \/ AddSkillsStart(t)
    \/ AddSkillsStat(t)

Refresh ==
  \E t \in Callers : RefreshStat(t) \/ LoadRead(t) \/ LoadTop(t) \/ LoadSub(t)

Execute ==
  \E t \in Callers :
    \/ ExecCheckRoot(t)
    \/ ExecCheckScripts(t)
    \/ \E outcome \in ChildOutcomes : ChildExit(t, outcome)

Call ==
  \E t \in Callers :
    \/ \E n \in AllNames : CallLoadSkill(t, n)
    \/ \E n \in AllNames, s \in UseScripts, a \in ArgShapes : CallUseSkill(t, n, s, a)
    \/ \E name \in OtherToolNames : CallUnknownTool(t, name)

Next == DiskEvent \/ Discovery \/ Refresh \/ Execute \/ Call

Spec == Init /\ [][Next]_vars

(***************************************************************************)
(* Two callers working on the skill "alpha" at the same time.              *)
(***************************************************************************)
Alpha == <<"rA", "alpha">>

InitConc ==
  /\ platform = "posix"
  /\ drives = {}
  /\ limits = [events |-> MaxConcEvents, calls |-> MaxConcCalls, callers |-> Callers]
  /\ resolvedDirs = <<"rA">>
  /\ filterOpts = [includeGiven |-> FALSE, include |-> {}, exclude |-> {}]
  /\ disk \in DriftedDisks
  /\ InitConstructed(InitDisk)

DiskEventConc ==
  \/ \E m \in MtimeRange : WriteManifest(Alpha, m, "")
  \/ RemoveManifest(Alpha)
  \/ AddScript(Alpha, N_SH)
  \/ RemoveScript(Alpha, R_JS)

CallConc ==
  \E t \in Callers :
    \/ CallLoadSkill(t, "alpha")
    \/ \E s \in UseScripts : CallUseSkill(t, "alpha", s, ArgArray(<<>>))

NextConc == DiskEventConc \/ Refresh \/ Execute \/ CallConc

SpecConc == InitConc /\ [][NextConc]_vars

(***************************************************************************)
(* executeScript called directly, with any script string.                  *)
(***************************************************************************)
Alphabet == {"r", ".", "/", "\\", " ", ":"}

RECURSIVE StringsOfLen(_)
StringsOfLen(k) ==
  IF k = 0 THEN {<<>>}
  ELSE {Append(s, c) : s \in StringsOfLen(k - 1), c \in Alphabet}

ScriptStrings ==
  UNION {StringsOfLen(k) : k \in 0..MaxLen} \cup {R_JS, H_JS, ScriptsDirName}

\* executeScript({skillDir, script, args, maxOutput})
CallExecuteScript(t, d, script, args, maxOutput) ==
  /\ t \in limits.callers
  /\ task[t].pc \in {"idle", "done"}
  /\ calls < limits.calls
  /\ task' = [task EXCEPT ![t] =
       ExecEntry([NewCall(t, "executeScript", "zeta", script) EXCEPT
                    !.scriptArgs = args, !.maxOutput = maxOutput], d)]
  /\ calls' = calls + 1
  /\ UNCHANGED <<platform, drives, resolvedDirs, filterOpts, limits, disk, epoch, skillsMap, mtimes>>

InitExec ==
  /\ platform \in {"posix", "win32"}
  /\ drives \in IF platform = "win32" THEN SUBSET {"r"} ELSE {{}}
  /\ limits = [events |-> 0, calls |-> 1, callers |-> {"t1"}]
  /\ resolvedDirs = <<"rA">>
  /\ filterOpts = [includeGiven |-> FALSE, include |-> {}, exclude |-> {}]
  /\ disk = [InitDisk EXCEPT ![Alpha].top = @ \cup {<<"r">>}]
  /\ InitConstructed(InitDisk)

\* executeScript's steps with every way the child can end
ExecuteAll ==
  \E t \in Callers :
    \/ ExecCheckRoot(t)
    \/ ExecCheckScripts(t)
    \/ TimeoutKill(t)
    \/ ChildIgnoresSignal(t)
    \/ \E outcome \in AllChildOutcomes : ChildExit(t, outcome)

NextExec ==
  \/ \E script \in ScriptStrings : CallExecuteScript("t1", Alpha, script, <<>>, 1)
  \/ ExecuteAll

SpecExec == InitExec /\ [][NextExec]_vars

(***************************************************************************)
(* Properties.                                                             *)
(***************************************************************************)
IsDone(t, op) == task[t].pc = "done" /\ task[t].op = op

\* a script value the executor has to refuse
BadScript(s) ==
  \/ s = <<>>
  \/ \A i \in 1..Len(s) : s[i] \in {" ", "\t"}
  \/ \E i \in 1..Len(s) : s[i] \in {"/", "\\"}
  \/ \E i \in 1..(Len(s) - 1) : s[i] = "." /\ s[i + 1] = "."
  \/ Len(s) > 2 /\ s[2] = ":" /\ s[3] \in {"/", "\\"}

\* C1: executeScript answers ScriptNotAllowed, at once and without spawning a
\* process, for every script that is empty or blank, contains "..", "/" or "\",
\* or is an absolute path under the POSIX or the Windows convention.
C1_BadScriptNeverSpawns ==
  \A t \in Callers :
    (task[t].op = "executeScript" /\ BadScript(task[t].script)) =>
      /\ task[t].pc = "done"
      /\ task[t].result.error = "ScriptNotAllowed"
      /\ ~task[t].spawned

C1_Witness ==
  \E t \in Callers :
    /\ IsDone(t, "executeScript")
    /\ task[t].script = <<"r", ":", "\\">>
    /\ platform = "posix"
    /\ task[t].result.error = "ScriptNotAllowed"

\* C2: use_skill spawns a process only for a script that is in the cached
\* scripts list of the named skill at the moment the call is handed to the
\* executor; a call refused for its script answers ScriptNotAllowed, names a
\* script that is not in the list, and spawns nothing.
C2_SpawnOnlyListed ==
  \A t \in Callers :
    task[t].op = "use_skill" =>
      /\ task[t].spawned => task[t].delegated /\ task[t].script \in task[t].allowed
      /\ (task[t].pc = "done" /\ ~task[t].delegated
            /\ task[t].result.error \notin {"InvalidArgs", "SkillNotFound"}) =>
           /\ task[t].result.error = "ScriptNotAllowed"
           /\ task[t].script \notin task[t].result.stderr.available
           /\ ~task[t].spawned

C2_Witness ==
  \E t \in Callers :
    /\ task[t].op = "use_skill"
    /\ task[t].spawned
    /\ task[t].script = N_SH
    /\ task[t].reparses = 1
    /\ N_SH \in task[t].allowed

\* C3: every script discovery lists for a skill, the ones of the scripts/
\* subfolder included, passes the executor's filename validation when it is given
\* to use_skill as listed.
C3_ListedScriptRuns ==
  \A t \in Callers :
    (task[t].op = "use_skill" /\ task[t].delegated) =>
      ~(task[t].pc = "done" /\ task[t].result.error = "ScriptNotAllowed")

\* C4: a load_skill of a cached skill whose manifest has another modification
\* time than the stored one returns the content now on disk; when the stat
\* finds the stored modification time, it returns the cached content and does
\* not re-parse.
C4_CacheFreshness ==
  \A t \in Callers :
    IsDone(t, "load_skill") =>
      /\ (task[t].hit /\ task[t].staleAtStart /\ task[t].startEpoch = epoch) =>
           /\ task[t].result.success
           /\ task[t].result.stdout =
                parseSkillFile(skillsMap[task[t].skillName].dirPath).content
      /\ task[t].firstStat = "eq" =>
           /\ task[t].reparses = 0
           /\ task[t].result.success
           /\ task[t].result.stdout = task[t].cachedAtStat

C4_Witness ==
  \E t \in Callers :
    /\ IsDone(t, "load_skill")
    /\ task[t].hit /\ task[t].staleAtStart /\ task[t].startEpoch = epoch
    /\ task[t].result.stdout = <<Alpha, 2>>

\* C5: the stored modification time of every registry entry is the
\* modification time of the manifest version whose content the entry holds.
C5_MtimeOfParsedVersion ==
  \A n \in AllNames :
    (skillsMap[n] # NoSkill /\ mtimes[n] # Undef) =>
      mtimes[n] = disk[skillsMap[n].dirPath].hist[skillsMap[n].content[2]]

\* C6: a skill's map entry and its stored modification time change in one
\* step: no state shows a skill that is in the map without a stored
\* modification time.
C6_EntryAndMtimeTogether ==
  \A n \in AllNames : skillsMap[n] # NoSkill => mtimes[n] # Undef

\* what one refresh of the directory of skill n, as it is on disk now, stores
FreshEntry(n) ==
  LET d == skillsMap[n].dirPath
  IN [name |-> IF disk[d].fmname # "" THEN disk[d].fmname ELSE n,
      content |-> <<d, Len(disk[d].hist)>>,
      dirPath |-> d,
      scripts |-> SelectSeq(FileOrder, LAMBDA f : f \in disk[d].top \ {D_MD})
                  \o PrefixEach(SelectSeq(FileOrder, LAMBDA f : f \in disk[d].sub))]

\* two calls on the same skill that were in flight together, both re-parsed
\* and stored, and nothing was written to the disk since the later one ended
BothRefreshed(t, u) ==
  /\ t # u
  /\ task[t].pc = "done" /\ task[u].pc = "done"
  /\ task[t].skillName = task[u].skillName
  /\ task[t].overlapped /\ task[u].overlapped
  /\ task[t].wrote /\ task[u].wrote
  /\ (task[t].doneEpoch = epoch \/ task[u].doneEpoch = epoch)
  /\ disk[skillsMap[task[t].skillName].dirPath].present

\* C7, as claimed: after two interleaved refreshes of the same skill the cache
\* entry is the one a single refresh of the directory as it is now would store.
C7_Original ==
  \A t, u \in Callers :
    BothRefreshed(t, u) =>
      /\ skillsMap[task[t].skillName] = FreshEntry(task[t].skillName)
      /\ mtimes[task[t].skillName] = CurMtime(skillsMap[task[t].skillName].dirPath)

\* C7, amended: the same, when the directory was not written while either of
\* the two calls was in flight.
C7_Amended ==
  \A t, u \in Callers :
    (BothRefreshed(t, u) /\ task[t].startEpoch = epoch /\ task[u].startEpoch = epoch) =>
      /\ skillsMap[task[t].skillName] = FreshEntry(task[t].skillName)
      /\ mtimes[task[t].skillName] = CurMtime(skillsMap[task[t].skillName].dirPath)

C7_Witness ==
  /\ BothRefreshed("t1", "t2")
  /\ task["t1"].startEpoch = epoch /\ task["t2"].startEpoch = epoch
  /\ skillsMap["alpha"].content = <<Alpha, 2>>

\* C8: no handleToolCall ends with a rejected promise.
C8_NeverRejects ==
  \A t \in Callers : ~task[t].result.rejected

C10_MissRediscovers ==
  \A t \in Callers :
    (IsDone(t, "load_skill") /\ ~task[t].hit) =>
      /\ task[t].rediscovers = 1
      /\ \/ /\ task[t].result.success
            /\ skillsMap[task[t].skillName] # NoSkill
            /\ task[t].result.stdout[1] = skillsMap[task[t].skillName].dirPath
         \/ /\ task[t].result.error = "SkillNotFound"
            /\ task[t].result.stderr.quoted = <<task[t].skillName>>
            /\ task[t].result.stderr.available = skillNamesOf(skillsMap)

\* C11: every SkillNotFound answer of load_skill or use_skill carries a message
\* that lists the known skill names, and every ScriptNotAllowed answer of
\* use_skill carries a message that lists the scripts of the skill.
C11_ErrorsListNames ==
  \A t \in Callers :
    (task[t].pc = "done" /\ task[t].op \in {"load_skill", "use_skill"}) =>
      /\ task[t].result.error = "SkillNotFound" =>
           /\ task[t].result.stderr.text # ""
           /\ task[t].result.stderr.available = skillNamesOf(skillsMap)
      /\ task[t].result.error = "ScriptNotAllowed" =>
           /\ task[t].result.stderr.text # ""
           /\ task[t].result.stderr.available =
                SeqRange(skillsMap[task[t].skillName].scripts)

(***************************************************************************)
(* use_skill called with every kind of args value.                         *)
(***************************************************************************)
MaxArgCalls == 2     \* handleToolCall calls in one behaviour of SpecArgs

\* the disk after r.js was removed from alpha
ScriptGoneDisk == [InitDisk EXCEPT ![Alpha].top = {D_MD}]

InitArgs ==
  /\ platform = "posix"
  /\ drives = {}
  /\ limits = [events |-> 0, calls |-> MaxArgCalls, callers |-> {"t1"}]
  /\ resolvedDirs = <<"rA">>
  /\ filterOpts = [includeGiven |-> FALSE, include |-> {}, exclude |-> {}]
  /\ disk \in DriftedDisks \cup {ScriptGoneDisk}
  /\ InitConstructed(InitDisk)

CallArgs ==
  \E n \in AllNames, s \in UseScripts, a \in ArgValues : CallUseSkill("t1", n, s, a)

NextArgs == CallArgs \/ Refresh \/ Execute

SpecArgs == InitArgs /\ [][NextArgs]_vars

\* an args value that is an array of strings
IsStringArray(rawArgs) ==
  IsArray(rawArgs) /\ \A i \in 1..Len(rawArgs.items) : rawArgs.items[i].t = "string"

\* C12: use_skill answers InvalidArgs for every args value that is given and is
\* not an array of strings: a string, a number, an object, or an array with an
\* element that is not a string.
C12_NonStringArrayRejected ==
  \A t \in Callers :
    (/\ task[t].op = "use_skill"
     /\ task[t].rawArgs.kind \notin {"undefined", "null"}
     /\ ~IsStringArray(task[t].rawArgs)) =>
      /\ task[t].pc = "done"
      /\ task[t].result.error = "InvalidArgs"
      /\ ~task[t].result.success

\* C13: use_skill with args undefined or null goes on with an empty argument
\* list: it never answers InvalidArgs, and it reaches validation and execution.
C13_OmittedArgsAreEmpty ==
  \A t \in Callers :
    (task[t].op = "use_skill" /\ task[t].rawArgs.kind \in {"undefined", "null"}) =>
      /\ task[t].scriptArgs = <<>>
      /\ task[t].result.error # "InvalidArgs"
      /\ (task[t].hit /\ task[t].pc = "done") =>
           \/ task[t].delegated
           \/ task[t].result.error = "ScriptNotAllowed"

C13_Witness ==
  \E t \in Callers :
    /\ IsDone(t, "use_skill")
    /\ task[t].rawArgs.kind = "null"
    /\ task[t].spawned
    /\ task[t].result.success

(***************************************************************************)
(* Construction over two roots: the per-root discoveries of                *)
(* createSkillsProvider run interleaved, then addSkills merges them.       *)
(***************************************************************************)
\* a skill folder with a manifest and one script
SkillDir(script) ==
  [present |-> TRUE, hist |-> <<1>>, fmname |-> "", top |-> {script}, sub |-> {}]

\* every choice of which folders of the two roots hold a skill
CtorDisks ==
  { [d \in AllDirs |->
       IF d \in ds THEN SkillDir(IF d[1] = "rA" THEN R_JS ELSE N_SH) ELSE EmptyDir] :
    ds \in SUBSET AllDirs }

RootOrders == { <<"rA", "rB">>, <<"rB", "rA">> }

FilterChoices ==
  { [includeGiven |-> FALSE, include |-> {}, exclude |-> {}],
    [includeGiven |-> FALSE, include |-> {}, exclude |-> {"beta"}],
    [includeGiven |-> TRUE, include |-> {"alpha"}, exclude |-> {}],
    [includeGiven |-> TRUE, include |-> {}, exclude |-> {}] }

InitCtor ==
  /\ platform = "posix"
  /\ drives = {}
  /\ limits = [events |-> 0, calls |-> 0, callers |-> {}]
  /\ resolvedDirs \in RootOrders
  /\ filterOpts \in FilterChoices
  /\ disk \in CtorDisks
  /\ epoch = 0
  /\ skillsMap = [n \in AllNames |-> NoSkill]
  /\ mtimes = [n \in AllNames |-> Undef]
  /\ task = [t \in Tasks |->
               IF t = "ctor"
               THEN [Idle EXCEPT !.pc = "disc", !.op = "create", !.disc = StartDiscovery]
               ELSE Idle]
  /\ calls = 0

NextCtor == Discovery

SpecCtor == InitCtor /\ [][NextCtor]_vars

\* the positions in resolvedDirs of the roots that hold a skill named n
Holders(n) ==
  { i \in 1..Len(resolvedDirs) :
      /\ n \in Folders
      /\ PassesFilter(n)
      /\ disk[<<resolvedDirs[i], n>>].present }

FirstHolder(n) == CHOOSE i \in Holders(n) : \A j \in Holders(n) : i <= j

\* C14: the registry holds, for every name, at most the skill of the earliest
\* configured root that has one, whatever the order in which the discoveries of
\* the roots ran; when construction is over it holds exactly that one.
C14_FirstRootWins ==
  \A n \in AllNames :
    /\ skillsMap[n] # NoSkill =>
         /\ Holders(n) # {}
         /\ skillsMap[n].dirPath = <<resolvedDirs[FirstHolder(n)], n>>
         /\ skillsMap[n].content = <<skillsMap[n].dirPath, 1>>
    /\ (ProviderReady /\ Holders(n) # {}) =>
         /\ skillsMap[n] # NoSkill
         /\ mtimes[n] = CurMtime(skillsMap[n].dirPath)

C14_Witness ==
  /\ ProviderReady
  /\ resolvedDirs = <<"rB", "rA">>
  /\ disk[<<"rA", "alpha">>].present /\ disk[<<"rB", "alpha">>].present
  /\ skillsMap["alpha"].dirPath = <<"rB", "alpha">>
  /\ skillsMap["alpha"].scripts = <<N_SH>>

(***************************************************************************)
(* Two roots after construction: load_skill calls with re-discovery while  *)
(* the outside world writes the disk.                                      *)
(***************************************************************************)
MaxRootEvents == 1   \* disk modifications in one behaviour of SpecRoots
MaxRootCalls == 2    \* handleToolCall calls in one behaviour of SpecRoots

\* the disk the two-root provider is constructed on: only the later root has alpha
RootsDisk ==
  [d \in AllDirs |-> IF d = <<"rB", "alpha">> THEN SkillDir(N_SH) ELSE EmptyDir]

\* since then the earlier root may have got a skill of the same name, or another
RootsDrifted ==
  { RootsDisk,
    [RootsDisk EXCEPT ![<<"rA", "alpha">>] = SkillDir(R_JS)],
    [RootsDisk EXCEPT ![<<"rA", "alpha">>] = SkillDir(R_JS),
                      ![<<"rA", "beta">>] = SkillDir(R_JS)],
    [RootsDisk EXCEPT ![<<"rB", "alpha">>].hist = <<1, 2>>,
                      ![<<"rB", "beta">>] = SkillDir(N_SH)] }

InitRoots ==
  /\ platform = "posix"
  /\ drives = {}
  /\ limits = [events |-> MaxRootEvents, calls |-> MaxRootCalls, callers |-> {"t1"}]
  /\ resolvedDirs = <<"rA", "rB">>
  /\ filterOpts = [includeGiven |-> FALSE, include |-> {}, exclude |-> {}]
  /\ disk \in RootsDrifted
  /\ InitConstructed(RootsDisk)

CallRoots == \E n \in AllNames : CallLoadSkill("t1", n)

NextRoots == DiskEvent \/ Discovery \/ Refresh \/ CallRoots

SpecRoots == InitRoots /\ [][NextRoots]_vars

\* C15: a re-discovery leaves every entry that was in the registry before it
\* as it was, record and stored modification time, also when an earlier root
\* now has a skill of that name.
C15_RediscoverKeepsEntries ==
  \A t \in Callers :
    (task[t].op = "load_skill" /\ ~task[t].hit /\ task[t].rediscovers = 1) =>
      \A n \in AllNames :
        task[t].mapAtStart[n] # NoSkill =>
          /\ skillsMap[n] = task[t].mapAtStart[n]
          /\ mtimes[n] = task[t].mtAtStart[n]

C15_Witness ==
  \E t \in Callers :
    /\ IsDone(t, "load_skill")
    /\ ~task[t].hit /\ task[t].rediscovers = 1
    /\ ~task[t].result.rejected
    /\ task[t].mapAtStart["alpha"].dirPath = <<"rB", "alpha">>
    /\ disk[<<"rA", "alpha">>].present
    /\ task[t].startEpoch = epoch
    /\ skillsMap["alpha"].dirPath = <<"rB", "alpha">>
    /\ skillsMap["beta"] # NoSkill

\* a load_skill of a cached skill whose manifest could not be stat'ed answers
\* with the content that was cached
LoadAfterDelete ==
  \A t \in Callers :
    (IsDone(t, "load_skill") /\ task[t].hit /\ task[t].firstStat = "fail") =>
      /\ task[t].result.success
      /\ task[t].result.stdout = task[t].mapAtStart[task[t].skillName].content

\* C16: no step removes a name from the registry, whatever calls are made and
\* whatever happens on disk, and load_skill of a skill whose manifest was
\* deleted still succeeds with the cached content.
C16_NoEviction ==
  /\ [][\A n \in AllNames : skillsMap[n] # NoSkill => skillsMap'[n] # NoSkill]_vars
  /\ []LoadAfterDelete

C16_Witness ==
  \E t \in Callers :
    /\ IsDone(t, "load_skill")
    /\ task[t].skillName = "alpha"
    /\ task[t].firstStat = "fail"
    /\ ~disk[Alpha].present
    /\ task[t].result.success
    /\ task[t].result.stdout = <<Alpha, 1>>
    /\ skillsMap["alpha"] # NoSkill

\* C17: a call on a cached skill in which every stat of the manifest failed
\* leaves the skill's record and its stored modification time as they were
\* when the call started.
C17_StatFailKeepsEntry ==
  \A t \in Callers :
    (/\ task[t].pc = "done"
     /\ task[t].op \in {"load_skill", "use_skill"}
     /\ task[t].hit
     /\ task[t].firstStat = "fail"
     /\ task[t].reparses = 0) =>
      /\ skillsMap[task[t].skillName] = task[t].mapAtStart[task[t].skillName]
      /\ mtimes[task[t].skillName] = task[t].mtAtStart[task[t].skillName]

\* the scripts a re-parse of directory d lists now
FreshScripts(d) ==
  SeqRange(collectScripts(disk[d].top) \o PrefixEach(collectScripts(disk[d].sub)))

TimerFired(child) == child.how \in {"timeout", "trapExit0", "trapExitNonzero"}

C19_TimeoutOnlyOnTimeout ==
  \A t \in Callers :
    (task[t].pc = "done" /\ task[t].spawned) =>
      /\ task[t].result.error = "ExecutionTimeout" => TimerFired(task[t].child)
      /\ ~TimerFired(task[t].child) => task[t].result.error # "ExecutionTimeout"

C19_Witness ==
  \E t \in Callers :
    /\ IsDone(t, "executeScript")
    /\ task[t].spawned
    /\ task[t].child.how = "maxBuffer"
    /\ task[t].child.out = <<"a", "a">>
    /\ task[t].child.code = NullCode
    /\ task[t].result.error = "ExecutionFailed"
    /\ task[t].result.exitCode = -1

\* C20: when the child is still running at the timeout, executeScript answers
\* exactly {success: false, stdout: '', stderr: '', exitCode: -1, error:
\* ExecutionTimeout}; the output captured until then is discarded.
C20_TimeoutResultExact ==
  \A t \in Callers :
    (task[t].pc = "done" /\ task[t].spawned /\ TimerFired(task[t].child)) =>
      /\ ~task[t].result.rejected
      /\ ~task[t].result.success
      /\ task[t].result.stdout = NoText
      /\ task[t].result.stderr = NoMessage
      /\ task[t].result.exitCode = -1
      /\ task[t].result.error = "ExecutionTimeout"

(***************************************************************************)
(* executeScript under fair scheduling: the event loop runs every callback *)
(* that is due, the timer fires, and a signalled child reacts in one of    *)
(* the ways open to it.                                                    *)
(***************************************************************************)
SpecExecLive == InitExec /\ [][NextExec]_vars /\ WF_vars(ExecuteAll)

\* C21: every executeScript call whose child is still running when the timer
\* fires is eventually resolved with {success: false, error: ExecutionTimeout},
\* whatever the child does with the termination signal; it never stays pending.
C21_TimeoutAlwaysResolves ==
  \A t \in Callers :
    (task[t].pc = "ex_term") ~>
      (task[t].pc = "done" /\ ~task[t].result.success
         /\ task[t].result.error = "ExecutionTimeout")

(***************************************************************************)
(* executeScript with every captured output up to MaxOutLen characters on  *)
(* each stream and every maxOutput up to MaxCap.                           *)
(***************************************************************************)
RECURSIVE OutStringsOfLen(_)
OutStringsOfLen(k) ==
  IF k = 0 THEN {<<>>}
  ELSE {Append(s, c) : s \in OutStringsOfLen(k - 1), c \in OutChars}

OutStrings == UNION {OutStringsOfLen(k) : k \in 0..MaxOutLen}

\* every ending before the timer fires, with every captured output
OutOutcomes ==
  { [Outcome(how, out, err) EXCEPT !.code = c] :
      how \in EndingsAt("ex_run"), out \in OutStrings, err \in OutStrings,
      c \in {NullCode, 0, 1, SpawnErrno} }

ExecuteOut ==
  \E t \in Callers :
    \/ ExecCheckRoot(t)
    \/ ExecCheckScripts(t)
    \/ \E outcome \in OutOutcomes : ChildExit(t, outcome)

NextOut ==
  \/ \E script \in {R_JS, H_JS}, maxOutput \in 1..MaxCap :
       CallExecuteScript("t1", Alpha, script, <<>>, maxOutput)
  \/ ExecuteOut

SpecOut == InitExec /\ [][NextOut]_vars

\* the returned text ends with the truncation marker
EndsWithMarker(text) == text # <<>> /\ text[Len(text)] = TRUNCATION_MARKER

\* the returned text is the captured one, capped as the specification says
CappedAsSpecified(captured, returned, maxOutput) ==
  IF ByteLength(captured) > maxOutput
  THEN ByteLength(returned) <= maxOutput + MarkerLen /\ EndsWithMarker(returned)
  ELSE returned = captured

\* the call has returned what its child wrote
ReturnsOutput(t) ==
  /\ task[t].pc = "done"
  /\ task[t].spawned
  /\ task[t].result.error # "ExecutionTimeout"

\* C22: a captured stdout or stderr longer than maxOutput bytes is returned
\* with at most maxOutput bytes plus the bytes of the marker, and ends with the
\* marker; one at or under the cap is returned as captured; each stream is
\* capped for itself.
C22_OutputCapped ==
  \A t \in Callers :
    ReturnsOutput(t) =>
      /\ CappedAsSpecified(task[t].child.out, task[t].result.stdout, task[t].maxOutput)
      /\ CappedAsSpecified(task[t].child.err, task[t].result.stderr.raw, task[t].maxOutput)

\* the child ended by itself with exit code 0 before the timer fired
ExitedZero(child) == child.how \in {"exit0", "maxBuffer"} /\ child.code = 0

\* C23: a child that exits with code 0 before the timeout yields {success:
\* true, exitCode: 0} with the capped captured output, whatever the size of
\* the output; one that exits non-zero or cannot be started yields
\* ExecutionFailed with the capped captured output and the child's exit code,
\* or -1 when there is none.
C23_ExitCodeHandling ==
  \A t \in Callers :
    (task[t].pc = "done" /\ task[t].spawned) =>
      LET child == task[t].child
          res == task[t].result
          capped == /\ res.stdout = capOutput(child.out, task[t].maxOutput)
                    /\ res.stderr.raw = capOutput(child.err, task[t].maxOutput)
      IN /\ ExitedZero(child) => res.success /\ res.exitCode = 0 /\ capped
         /\ child.how = "exitNonzero" =>
              /\ ~res.success
              /\ res.error = "ExecutionFailed"
              /\ res.exitCode = child.code
              /\ capped
         /\ child.how = "spawnError" =>
              /\ ~res.success
              /\ res.error = "ExecutionFailed"
              /\ res.exitCode = -1
              /\ capped

(***************************************************************************)
(* executeScript with every args list up to MaxArgs elements, for scripts  *)
(* of every kind resolveCommand tells apart.                               *)
(***************************************************************************)
R_MJS == <<"r", ".", "m", "j", "s">>
ArgvScripts == {R_JS, R_MJS, N_SH, H_JS, <<"r">>}

\* args elements a shell would split or expand
ArgTokens == {"a", "a b", "$(x)"}

RECURSIVE ArgListsOfLen(_)
ArgListsOfLen(k) ==
  IF k = 0 THEN {<<>>}
  ELSE {Append(s, a) : s \in ArgListsOfLen(k - 1), a \in ArgTokens}

ArgLists == UNION {ArgListsOfLen(k) : k \in 0..MaxArgs}

InitArgv ==
  /\ platform = "posix"
  /\ drives = {}
  /\ limits = [events |-> 0, calls |-> 1, callers |-> {"t1"}]
  /\ resolvedDirs = <<"rA">>
  /\ filterOpts = [includeGiven |-> FALSE, include |-> {}, exclude |-> {}]
  /\ disk = [InitDisk EXCEPT ![Alpha].top = @ \cup {<<"r">>, R_MJS, N_SH}]
  /\ InitConstructed(InitDisk)

NextArgv ==
  \/ \E script \in ArgvScripts, args \in ArgLists :
       CallExecuteScript("t1", Alpha, script, args, MaxCap)
  \/ Execute

SpecArgv == InitArgv /\ [][NextArgv]_vars

\* the script is run by node or bash
Interpreted(scriptPath) ==
  extname(scriptPath) \in {<<".", "m", "j", "s">>, <<".", "j", "s">>, <<".", "s", "h">>}

\* C24: for every args list, the arguments handed to execFile are the resolved
\* script path (for .mjs, .js and .sh) followed by the elements of args, one for
\* one, in order and unchanged; no element is split, joined or interpreted, and
\* no shell is started.
C24_ArgvPassedThrough ==
  \A t \in Callers :
    (task[t].op = "executeScript" /\ task[t].spawned) =>
      /\ task[t].command # <<"sh">>
      /\ task[t].execArgs =
           (IF Interpreted(task[t].scriptPath) THEN <<task[t].scriptPath>> ELSE <<>>)
             \o task[t].scriptArgs
      /\ Interpreted(task[t].scriptPath) =>
           /\ Len(task[t].execArgs) = Len(task[t].scriptArgs) + 1
           /\ \A i \in 1..Len(task[t].scriptArgs) :
                task[t].execArgs[i + 1] = task[t].scriptArgs[i]

C24_Witness ==
  \E t \in Callers :
    /\ IsDone(t, "executeScript")
    /\ task[t].script = N_SH
    /\ task[t].scriptArgs = <<"a b", "$(x)">>
    /\ task[t].command = <<"bash">>
    /\ task[t].execArgs = <<DirSegs(Alpha) \o <<N_SH>>, "a b", "$(x)">>
    /\ task[t].result.success

\* the resolved path lies strictly inside the skill directory
StrictlyInside(scriptPath, d) ==
  Len(scriptPath) > 2 /\ SubSeq(scriptPath, 1, 2) = DirSegs(d)

\* the script resolves to a path outside the skill directory
ResolvesOutside(t) ==
  /\ isSimpleFilename(task[t].script, platform)
  /\ \/ /\ fileExists(candidateRoot(Alpha, task[t].script))
        /\ ~ContainmentOk(candidateRoot(Alpha, task[t].script), Alpha)
     \/ /\ ~fileExists(candidateRoot(Alpha, task[t].script))
        /\ fileExists(candidateScripts(Alpha, task[t].script))
        /\ ~ContainmentOk(candidateScripts(Alpha, task[t].script), Alpha)

\* C25: whenever executeScript hands a script to execFile, the resolved path
\* lies strictly inside skillDir (skillDir plus a separator is a prefix of it);
\* a script that resolves to a path outside skillDir is answered with
\* ScriptNotAllowed and nothing is spawned.
C25_Containment ==
  \A t \in Callers :
    (task[t].op = "executeScript") =>
      /\ task[t].spawned => StrictlyInside(task[t].scriptPath, Alpha)
      /\ (task[t].pc = "done" /\ ResolvesOutside(t)) =>
           task[t].result.error = "ScriptNotAllowed" /\ ~task[t].spawned

\* the path names a regular file
IsRegularFile(p) == fileExists(p) /\ ~IsDirectory(p)

\* the first of the two candidates that is a regular, readable file
FirstRegular(d, script) ==
  IF IsRegularFile(candidateRoot(d, script)) THEN candidateRoot(d, script)
  ELSE IF IsRegularFile(candidateScripts(d, script)) THEN candidateScripts(d, script)
  ELSE <<>>

\* C26: executeScript runs the first existing regular, readable file among
\* skillDir/script and skillDir/scripts/script, in that order; when neither
\* exists it answers ScriptNotFound and spawns nothing.
C26_FirstRegularFile ==
  \A t \in Callers :
    (task[t].op = "executeScript" /\ task[t].pc = "done"
       /\ isSimpleFilename(task[t].script, platform) /\ ~ResolvesOutside(t)) =>
      IF FirstRegular(Alpha, task[t].script) = <<>>
      THEN task[t].result.error = "ScriptNotFound" /\ ~task[t].spawned
      ELSE task[t].spawned /\ task[t].scriptPath = FirstRegular(Alpha, task[t].script)

(***************************************************************************)
(* The registry over two roots with every choice of filters: construction, *)
(* then lookups that re-discover while the outside world adds directories. *)
(***************************************************************************)
InitFilter ==
  /\ platform = "posix"
  /\ drives = {}
  /\ limits = [events |-> MaxRootEvents, calls |-> MaxRootCalls, callers |-> {"t1"}]
  /\ resolvedDirs = <<"rA", "rB">>
  /\ filterOpts \in FilterChoices
  /\ disk \in RootsDrifted
  /\ InitConstructed(RootsDisk)

SpecFilter == InitFilter /\ [][NextRoots]_vars

\* the filters as specified: with include present only listed names pass, and
\* names listed in exclude are dropped
FilterAccepts(folder) ==
  /\ filterOpts.includeGiven => folder \in filterOpts.include
  /\ folder \notin filterOpts.exclude

\* C27: in every reachable state of the registry, after construction and after
\* any number of re-discoveries, every entry comes from a directory whose base
\* name is listed in include (when include is present) and not listed in exclude.
C27_EntriesPassFilters ==
  \A n \in AllNames :
    skillsMap[n] # NoSkill => FilterAccepts(skillsMap[n].dirPath[2])

\* the call was made with a tool name the handler does not know
IsUnknownToolCall(tk) == tk.pc = "done" /\ tk.op \in OtherToolNames

UnknownToolAnswer ==
  \A t \in Callers :
    IsUnknownToolCall(task[t]) =>
      /\ ~task[t].result.rejected
      /\ ~task[t].result.success
      /\ task[t].result.exitCode = -1
      /\ task[t].result.error = "UnknownTool"
      /\ task[t].result.stderr.quoted = <<task[t].op>>

\* C28: handleToolCall with a tool name other than 'load_skill' and 'use_skill'
\* returns {success: false, exitCode: -1, error: 'UnknownTool'} with a message
\* that contains the given name, and the step leaves the skills map and the
\* modification times as they were.
C28_UnknownTool ==
  /\ [][\A t \in Callers :
          (task'[t] # task[t] /\ IsUnknownToolCall(task'[t])) =>
            skillsMap' = skillsMap /\ mtimes' = mtimes]_vars
  /\ []UnknownToolAnswer

C28_Witness ==
  \E t \in Callers :
    /\ IsUnknownToolCall(task[t])
    /\ task[t].op = "unknown_tool"
    /\ task[t].result.error = "UnknownTool"
    /\ task[t].result.stderr.quoted = <<"unknown_tool">>
    /\ skillsMap["alpha"] # NoSkill
    /\ skillsMap = task[t].mapAtStart
    /\ mtimes = task[t].mtAtStart

(***************************************************************************)
(* parseSkillFile on every text of up to MaxText characters made of        *)
(* dashes, line breaks and one other character.                            *)
(***************************************************************************)
TextChars == {"-", "\n", "x"}
DELIMITER == <<"-", "-", "-">>

RECURSIVE TextsOfLen(_)
TextsOfLen(k) ==
  IF k = 0 THEN {<<>>}
  ELSE {Append(s, c) : s \in TextsOfLen(k - 1), c \in TextChars}

Texts == UNION {TextsOfLen(k) : k \in 0..MaxText}

\* String.prototype.startsWith
StartsWith(raw, prefix) ==
  Len(raw) >= Len(prefix) /\ SubSeq(raw, 1, Len(prefix)) = prefix

\* String.prototype.indexOf(needle, from), with indexes from 0; -1 when absent
IndexOf(raw, needle, from) ==
  LET hits == {i \in from..(Len(raw) - Len(needle)) :
                 SubSeq(raw, i + 1, i + Len(needle)) = needle}
  IN IF hits = {} THEN -1 ELSE CHOOSE i \in hits : \A j \in hits : i <= j

\* String.prototype.slice(from, to) and slice(from), with indexes from 0
Slice(raw, from, to) == SubSeq(raw, from + 1, to)
SliceFrom(raw, from) == SubSeq(raw, from + 1, Len(raw))

\* replace(/^\r?\n/, '')
StripLeadingBreak(s) ==
  IF StartsWith(s, <<"\n">>) THEN SliceFrom(s, 1)
  ELSE IF StartsWith(s, <<"\r", "\n">>) THEN SliceFrom(s, 2)
  ELSE s

\* parseSkillFile from the text it read to the content: the frontmatter test
\* and the cut
splitFrontmatter(raw) ==
  IF StartsWith(raw, DELIMITER)
  THEN LET endIndex == IndexOf(raw, <<"\n">> \o DELIMITER, 3)
       IN IF endIndex # -1
          THEN [found |-> TRUE,
                block |-> Slice(raw, 3, endIndex),
                content |-> StripLeadingBreak(SliceFrom(raw, endIndex + 4))]
          ELSE [found |-> FALSE, block |-> <<>>, content |-> raw]
  ELSE [found |-> FALSE, block |-> <<>>, content |-> raw]

\* parseSkillFile applied to the text of the file
ParseSkillText(t) ==
  /\ task[t].pc = "parse"
  /\ task' = [task EXCEPT ![t].pc = "done", ![t].file = splitFrontmatter(task[t].text)]
  /\ UNCHANGED <<platform, drives, resolvedDirs, filterOpts, limits, disk, epoch, skillsMap, mtimes, calls>>

InitParse ==
  /\ platform = "posix"
  /\ drives = {}
  /\ limits = [events |-> 0, calls |-> 0, callers |-> {"t1"}]
  /\ resolvedDirs = <<"rA">>
  /\ filterOpts = [includeGiven |-> FALSE, include |-> {}, exclude |-> {}]
  /\ disk = InitDisk
  /\ epoch = 0
  /\ skillsMap = [n \in AllNames |-> NoSkill]
  /\ mtimes = [n \in AllNames |-> Undef]
  /\ \E raw \in Texts :
       task = [t \in Tasks |->
                 IF t = "t1"
                 THEN [Idle EXCEPT !.pc = "parse", !.op = "parseSkillFile", !.text = raw]
                 ELSE Idle]
  /\ calls = 0

NextParse == \E t \in Callers : ParseSkillText(t)

SpecParse == InitParse /\ [][NextParse]_vars

\* the lines of a text
RECURSIVE LinesOf(_)
LinesOf(raw) ==
  LET k == IndexOf(raw, <<"\n">>, 0)
  IN IF k = -1 THEN <<raw>> ELSE <<Slice(raw, 0, k)>> \o LinesOf(SliceFrom(raw, k + 1))

\* the lines joined again with line breaks
RECURSIVE JoinLines(_)
JoinLines(lines) ==
  IF lines = <<>> THEN <<>>
  ELSE IF Len(lines) = 1 THEN lines[1]
  ELSE lines[1] \o <<"\n">> \o JoinLines(Tail(lines))

\* the number of the first line after the first that consists of exactly the
\* delimiter, 0 when there is none
ClosingLine(lines) ==
  LET js == {j \in 2..Len(lines) : lines[j] = DELIMITER}
  IN IF js = {} THEN 0 ELSE CHOOSE j \in js : \A i \in js : j <= i

\* C29: parseSkillFile takes a frontmatter block from the text only when the
\* first line is exactly '---' and a later line is exactly '---'; the block is
\* the lines between them and the content is everything after the closing line;
\* when there is no such closing line, the whole text is the content.
C29_FrontmatterDelimiters ==
  \A t \in Callers :
    (task[t].op = "parseSkillFile" /\ task[t].pc = "done") =>
      LET lines == LinesOf(task[t].text)
          j == ClosingLine(lines)
      IN IF lines[1] = DELIMITER /\ j # 0
         THEN /\ task[t].file.found
              /\ StripLeadingBreak(task[t].file.block) = JoinLines(SubSeq(lines, 2, j - 1))
              /\ task[t].file.content = JoinLines(SubSeq(lines, j + 1, Len(lines)))
         ELSE /\ ~task[t].file.found
              /\ task[t].file.content = task[t].text

(***************************************************************************)
(* processTurn over every stream of up to MaxItems items: function calls   *)
(* of load_skill and use_skill, in progress and completed, with arguments  *)
(* of every kind, their outputs, and message items.                        *)
(***************************************************************************)
ArgTexts ==
  { "{\"remember\":true}", "{\"remember\":false}", "{\"skill\":\"x\"}",
    "{\"skill\":", "null" }

\* JSON.parse(text): throws for a text that is not JSON; otherwise the value,
\* of which only the kind and the remember property matter
JSONParse(text) ==
  CASE text = "{\"remember\":true}" -> [throws |-> FALSE, kind |-> "object", remember |-> "true"]
    [] text = "{\"remember\":false}" -> [throws |-> FALSE, kind |-> "object", remember |-> "false"]
    [] text = "{\"skill\":\"x\"}" -> [throws |-> FALSE, kind |-> "object", remember |-> "undefined"]
    [] text = "null" -> [throws |-> FALSE, kind |-> "null", remember |-> "undefined"]
    [] OTHER -> [throws |-> TRUE, kind |-> "none", remember |-> "undefined"]

\* let persist = true; for use_skill, inside try: JSON.parse, then persist =
\* false unless args.remember === true; the catch block is empty, so an
\* exception of JSON.parse or of the property read on null leaves persist true
Persist(name, arguments) ==
  IF name # "use_skill" THEN TRUE
  ELSE LET args == JSONParse(arguments)
       IN IF args.throws \/ args.kind = "null" THEN TRUE
          ELSE args.remember = "true"

HistoryItem(type, callId, name, arguments, output) ==
  [type |-> type, callId |-> callId, name |-> name, arguments |-> arguments,
   output |-> output]

TurnEvent(type, name, arguments, result, delta) ==
  [type |-> type, name |-> name, arguments |-> arguments, result |-> result,
   delta |-> delta]

\* the texts of message items and of getText(), up to MaxMsg characters
MaxMsg == 2
MsgChars == {"a", "b"}
MsgTexts == UNION { [1..k -> MsgChars] : k \in 0..MaxMsg }

\* text.slice(start): the characters from index start on
SliceText(text, start) == SubSeq(text, start + 1, Len(text))

\* a message item; text is the text of its content, the texts of its parts
\* joined or the string itself
MessageItem(x) ==
  [type |-> "message", callId |-> "", name |-> "", arguments |-> "",
   status |-> "", output |-> "", text |-> x]

\* the items of the stream: calls, outputs, and a message that grows
StreamItems ==
  { [type |-> "function_call", callId |-> c, name |-> nm, arguments |-> a,
     status |-> st, output |-> "", text |-> <<>>] :
      c \in CallIds, nm \in {"load_skill", "use_skill"}, a \in ArgTexts,
      st \in {"in_progress", "completed"} }
  \cup { [type |-> "function_call_output", callId |-> c, name |-> "", arguments |-> "",
          status |-> "", output |-> "out", text |-> <<>>] : c \in CallIds }
  \cup { MessageItem(<<"a">>), MessageItem(<<"a", "b">>) }

\* the items of a stream of messages of every text around one load_skill call
TextItems ==
  { MessageItem(x) : x \in MsgTexts }
  \cup { [type |-> "function_call", callId |-> "c1", name |-> "load_skill",
          arguments |-> "{\"skill\":\"x\"}", status |-> "completed", output |-> "",
          text |-> <<>>],
         [type |-> "function_call_output", callId |-> "c1", name |-> "",
          arguments |-> "", status |-> "", output |-> "out", text |-> <<>>] }

\* a call id names one call: its items agree on name and arguments, and
\* load_skill is called with a skill name
Consistent(tr, item) ==
  item.type = "function_call" =>
    /\ item.name = "load_skill" => item.arguments = "{\"skill\":\"x\"}"
    /\ tr.sent[item.callId] \in {NoItem, [name |-> item.name, arguments |-> item.arguments]}

\* the body of the loop for a function_call item without the seenCalls test
OnFunctionCall_NoDedupe(tr, item) ==
  LET named == [tr EXCEPT !.callNames[item.callId] = item.name]
  IN IF item.status = "completed"
     THEN LET persist == Persist(item.name, item.arguments)
          IN [named EXCEPT
                !.seenCalls = @ \cup {item.callId},
                !.history = IF persist
                            THEN Append(@, HistoryItem("function_call", item.callId,
                                                       item.name, item.arguments, ""))
                            ELSE @,
                !.skipCallIds = IF persist THEN @ ELSE @ \cup {item.callId},
                !.events = Append(@, TurnEvent("tool_call", item.name, item.arguments,
                                               "", <<>>)),
                !.eventIds = Append(@, item.callId)]
     ELSE named

\* the body of the for await loop for a function_call item
OnFunctionCall(tr, item) ==
  LET named == [tr EXCEPT !.callNames[item.callId] = item.name]
  IN IF item.status = "completed" /\ item.callId \notin tr.seenCalls
     THEN LET persist == Persist(item.name, item.arguments)
          IN [named EXCEPT
                !.seenCalls = @ \cup {item.callId},
                !.history = IF persist
                            THEN Append(@, HistoryItem("function_call", item.callId,
                                                       item.name, item.arguments, ""))
                            ELSE @,
                !.skipCallIds = IF persist THEN @ ELSE @ \cup {item.callId},
                !.events = Append(@, TurnEvent("tool_call", item.name, item.arguments,
                                               "", <<>>)),
                !.eventIds = Append(@, item.callId)]
     ELSE named

\* the body of the loop for a function_call_output item
OnFunctionCallOutput(tr, item) ==
  IF item.callId \notin tr.seenResults
  THEN [tr EXCEPT
          !.seenResults = @ \cup {item.callId},
          !.history = IF item.callId \notin tr.skipCallIds
                      THEN Append(@, HistoryItem("function_call_output", item.callId,
                                                 "", "", item.output))
                      ELSE @,
          !.events = Append(@, TurnEvent("tool_result",
                                         IF tr.callNames[item.callId] = "" THEN "unknown"
                                         ELSE tr.callNames[item.callId],
                                         "", item.output, <<>>)),
          !.eventIds = Append(@, item.callId)]
  ELSE tr

\* the body of the loop for a message item: the text grows, the delta is emitted
OnMessage(tr, item) ==
  IF Len(item.text) > Len(tr.streamedText)
  THEN [tr EXCEPT !.streamedText = item.text,
                  !.events = Append(@, TurnEvent("text_delta", "", "", "",
                                                 SliceText(item.text, Len(tr.streamedText)))),
                  !.eventIds = Append(@, "")]
  ELSE tr

\* what the stream has delivered, for stating properties
NoteItem(tr, item) ==
  [tr EXCEPT
     !.n = @ + 1,
     !.sent = IF item.type = "function_call"
              THEN [@ EXCEPT ![item.callId] =
                      [name |-> item.name, arguments |-> item.arguments]]
              ELSE @,
     !.completedIds = IF item.type = "function_call" /\ item.status = "completed"
                      THEN @ \cup {item.callId} ELSE @,
     !.completedFirst = IF /\ item.type = "function_call"
                           /\ item.status = "completed"
                           /\ item.callId \notin tr.outputIds
                        THEN @ \cup {item.callId} ELSE @,
     !.outputIds = IF item.type = "function_call_output"
                   THEN @ \cup {item.callId} ELSE @,
     !.repeats = IF \/ /\ item.type = "function_call"
                       /\ item.status = "completed"
                       /\ item.callId \in tr.completedIds
                    \/ /\ item.type = "function_call_output"
                       /\ item.callId \in tr.outputIds
                 THEN @ \cup {item.callId} ELSE @,
     !.carried = @ \/ (item.type = "message" /\ item.text # <<>>)]

\* one turn of the for await loop
TurnItem(t, item) ==
  /\ task[t].pc = "turn"
  /\ task[t].turn.n < MaxItems
  /\ Consistent(task[t].turn, item)
  /\ LET tr == NoteItem(task[t].turn, item)
     IN task' = [task EXCEPT ![t].turn =
                   CASE item.type = "function_call" -> OnFunctionCall(tr, item)
                     [] item.type = "function_call_output" -> OnFunctionCallOutput(tr, item)
                     [] OTHER -> OnMessage(tr, item)]
  /\ UNCHANGED <<platform, drives, resolvedDirs, filterOpts, limits, disk, epoch, skillsMap, mtimes, calls>>

\* the stream has ended: return { text, history }, the text being streamedText
\* or, when that is empty, what getText() resolves to
TurnReturn(t) ==
  /\ task[t].pc = "turn"
  /\ \E g \in MsgTexts :
       task' = [task EXCEPT ![t].pc = "done",
                            ![t].turn.getText = g,
                            ![t].turn.text = IF task[t].turn.streamedText # <<>>
                                             THEN task[t].turn.streamedText ELSE g]
  /\ UNCHANGED <<platform, drives, resolvedDirs, filterOpts, limits, disk, epoch, skillsMap, mtimes, calls>>

InitTurn ==
  /\ platform = "posix"
  /\ drives = {}
  /\ limits = [events |-> 0, calls |-> 0, callers |-> {"t1"}]
  /\ resolvedDirs = <<"rA">>
  /\ filterOpts = [includeGiven |-> FALSE, include |-> {}, exclude |-> {}]
  /\ disk = InitDisk
  /\ epoch = 0
  /\ skillsMap = [n \in AllNames |-> NoSkill]
  /\ mtimes = [n \in AllNames |-> Undef]
  /\ task = [t \in Tasks |->
               IF t = "t1" THEN [Idle EXCEPT !.pc = "turn", !.op = "processTurn"]
               ELSE Idle]
  /\ calls = 0

NextTurn ==
  \E t \in Callers :
    \/ \E item \in StreamItems : TurnItem(t, item)
    \/ TurnReturn(t)

SpecTurn == InitTurn /\ [][NextTurn]_vars

NextText ==
  \E t \in Callers :
    \/ \E item \in TextItems : TurnItem(t, item)
    \/ TurnReturn(t)

SpecText == InitTurn /\ [][NextText]_vars

\* the returned history holds an item of the type for the call
InHistory(tr, type, c) ==
  \E i \in 1..Len(tr.history) : tr.history[i].type = type /\ tr.history[i].callId = c

\* an event of the type was emitted with the name
Emitted(tr, type, name) ==
  \E i \in 1..Len(tr.events) : tr.events[i].type = type /\ tr.events[i].name = name

\* the arguments of the call carry remember === true
CarriesRemember(arguments) ==
  /\ ~JSONParse(arguments).throws
  /\ JSONParse(arguments).kind = "object"
  /\ JSONParse(arguments).remember = "true"

\* C30: for every completed use_skill call whose arguments do not carry
\* remember === true, neither the call nor its output is in the returned
\* history, while both are emitted to onEvent; completed load_skill calls and
\* their outputs are always in the history.
C30_RememberFlag ==
  \A t \in Callers :
    (task[t].op = "processTurn" /\ task[t].pc = "done") =>
      LET tr == task[t].turn
      IN \A c \in tr.completedFirst :
           /\ (tr.sent[c].name = "use_skill" /\ ~CarriesRemember(tr.sent[c].arguments)) =>
                /\ ~InHistory(tr, "function_call", c)
                /\ ~InHistory(tr, "function_call_output", c)
                /\ Emitted(tr, "tool_call", "use_skill")
                /\ c \in tr.outputIds => Emitted(tr, "tool_result", "use_skill")
           /\ tr.sent[c].name = "load_skill" =>
                /\ InHistory(tr, "function_call", c)
                /\ c \in tr.outputIds => InHistory(tr, "function_call_output", c)

\* the number of items of the type for the call in the returned history
HistoryCount(tr, type, c) ==
  Cardinality({i \in 1..Len(tr.history) :
                 tr.history[i].type = type /\ tr.history[i].callId = c})

\* the number of events of the type emitted for the call
EventCount(tr, type, c) ==
  Cardinality({i \in 1..Len(tr.events) :
                 tr.events[i].type = type /\ tr.eventIds[i] = c})

\* C31: whatever the stream delivers, each call id has at most one
\* function_call and at most one function_call_output in the history and at
\* most one tool_call and one tool_result among the events, and a call id of
\* which no completed function_call item arrived has no function_call in the
\* history and no tool_call event.
C31_Deduplicated ==
  \A t \in Callers :
    task[t].op = "processTurn" =>
      LET tr == task[t].turn
      IN \A c \in CallIds :
           /\ HistoryCount(tr, "function_call", c) <= 1
           /\ HistoryCount(tr, "function_call_output", c) <= 1
           /\ EventCount(tr, "tool_call", c) <= 1
           /\ EventCount(tr, "tool_result", c) <= 1
           /\ c \notin tr.completedIds =>
                /\ HistoryCount(tr, "function_call", c) = 0
                /\ EventCount(tr, "tool_call", c) = 0

\* a turn has returned in which a completed load_skill call or its output
\* was delivered more than once and another call never completed
C31_Witness ==
  \E t \in Callers :
    /\ task[t].op = "processTurn"
    /\ task[t].pc = "done"
    /\ LET tr == task[t].turn
       IN /\ "c1" \in tr.repeats
          /\ tr.sent["c1"].name = "load_skill"
          /\ HistoryCount(tr, "function_call", "c1") = 1
          /\ HistoryCount(tr, "function_call_output", "c1") = 1
          /\ tr.sent["c2"] # NoItem
          /\ "c2" \notin tr.completedIds

\* the deltas of the text_delta events, joined in the order of emission
RECURSIVE JoinDeltas(_)
JoinDeltas(events) ==
  IF events = <<>> THEN <<>>
  ELSE (IF Head(events).type = "text_delta" THEN Head(events).delta ELSE <<>>)
       \o JoinDeltas(Tail(events))

\* C32: when processTurn returns after message items that carried text, the
\* deltas of its text_delta events joined are the text it returns; when no
\* message item carried text, the text it returns is the value of getText().
C32_DeltasMakeText ==
  \A t \in Callers :
    (task[t].op = "processTurn" /\ task[t].pc = "done") =>
      LET tr == task[t].turn
      IN IF tr.carried THEN JoinDeltas(tr.events) = tr.text
         ELSE tr.text = tr.getText

\* C34: in whatever order the items arrive, the history that processTurn
\* returns holds no function_call_output of a use_skill call that was kept out
\* of the history, also when the output arrived before the completed call.
C34_NoOutputOfSkippedCall ==
  \A t \in Callers :
    (task[t].op = "processTurn" /\ task[t].pc = "done") =>
      \A c \in task[t].turn.skipCallIds :
        ~InHistory(task[t].turn, "function_call_output", c)

\* C35: a completed use_skill call whose arguments are not JSON is not in the
\* history that processTurn returns, nor is its output, and its tool_call
\* event is emitted.
C35_UnparseableNotPersisted ==
  \A t \in Callers :
    (task[t].op = "processTurn" /\ task[t].pc = "done") =>
      LET tr == task[t].turn
      IN \A c \in tr.completedIds :
           (tr.sent[c].name = "use_skill" /\ JSONParse(tr.sent[c].arguments).throws) =>
             /\ ~InHistory(tr, "function_call", c)
             /\ ~InHistory(tr, "function_call_output", c)
             /\ EventCount(tr, "tool_call", c) = 1

(***************************************************************************)
(* The registry while the manifest of "alpha" is rewritten with another    *)
(* frontmatter name, or with none.                                         *)
(***************************************************************************)
RewrittenNames == {"", "beta", "zeta"}

DiskEventNames ==
  \E m \in MtimeRange, nm \in RewrittenNames : WriteManifest(Alpha, m, nm)

CallNames ==
  \E t \in Callers, n \in AllNames : CallLoadSkill(t, n)

NextNames == DiskEventNames \/ Discovery \/ Refresh \/ CallNames

SpecNames == Init /\ [][NextNames]_vars

\* C36: in every state of the registry, the key of each entry of the skills
\* map is the name of the skill it maps to, also after a refresh re-parsed a
\* manifest whose frontmatter name was changed on disk.
C36_KeyIsName ==
  \A n \in AllNames : skillsMap[n] # NoSkill => skillsMap[n].name = n

\* the step in which the call of t is answered with the error
AnswersWith(t, error) ==
  /\ task'[t] # task[t]
  /\ task'[t].pc = "done"
  /\ task'[t].op = "use_skill"
  /\ task'[t].result.error = error

\* C37: a use_skill call answered with InvalidArgs is answered in the step it
\* is made: before any stat, re-parse, re-discovery or spawn, with the skills
\* map and the modification times unchanged; and a use_skill call whose args
\* are given and are not an array is answered with InvalidArgs, also when the
\* skill name is unknown.
C37_InvalidArgsBeforeLookup ==
  /\ [][\A t \in Callers :
          AnswersWith(t, "InvalidArgs") =>
            /\ task[t].pc = "idle" \/ task[t].pc = "done"
            /\ skillsMap' = skillsMap
            /\ mtimes' = mtimes
            /\ task'[t].firstStat = "none"
            /\ task'[t].reparses = 0
            /\ task'[t].rediscovers = 0
            /\ ~task'[t].spawned
            /\ ~task'[t].delegated]_vars
  /\ [](\A t \in Callers :
          (task[t].op = "use_skill" /\ ArgsRejected(task[t].rawArgs)) =>
            /\ task[t].pc = "done"
            /\ task[t].result = fail("InvalidArgs", NoMessage))

\* a use_skill call for a name that is not in the map, with a string as args,
\* was answered with InvalidArgs
C37_Witness ==
  \E t \in Callers :
    /\ task[t].op = "use_skill"
    /\ task[t].pc = "done"
    /\ task[t].rawArgs = ArgOther("string")
    /\ ~task[t].hit
    /\ skillsMap[task[t].skillName] = NoSkill
    /\ task[t].result.error = "InvalidArgs"

\* the errors of results produced before a child exited or without one
EarlyErrors ==
  {"SkillNotFound", "InvalidArgs", "ScriptNotAllowed", "ScriptNotFound",
   "UnknownTool", "ExecutionTimeout"}

\* the calls that returned a result
Returned(tk) ==
  /\ tk.op \notin {"", "create", "processTurn", "parseSkillFile"}
  /\ tk.pc = "done"
  /\ ~tk.result.rejected

\* C38: every result that handleToolCall or executeScript returns has success
\* true exactly when it has no error, has exitCode 0 when success is true, and
\* has exitCode -1 and an empty stdout when its error is SkillNotFound,
\* InvalidArgs, ScriptNotAllowed, ScriptNotFound, UnknownTool or
\* ExecutionTimeout.
C38_ResultWellFormed ==
  \A t \in Callers :
    Returned(task[t]) =>
      LET res == task[t].result
      IN /\ res.success <=> res.error = "none"
         /\ res.error \in EarlyErrors \cup {"ExecutionFailed", "none"}
         /\ res.success => res.exitCode = 0
         /\ res.error \in EarlyErrors => res.exitCode = -1 /\ res.stdout = NoText

\* a use_skill call returned ScriptNotAllowed with exitCode -1 and no stdout
C38_Witness ==
  \E t \in Callers :
    /\ Returned(task[t])
    /\ task[t].op = "use_skill"
    /\ task[t].result.error = "ScriptNotAllowed"
    /\ task[t].result.exitCode = -1
    /\ ~task[t].result.success

(***************************************************************************)
(* The registry under fair scheduling: every filesystem call a handler     *)
(* awaits completes, and so does the child process it waits for.           *)
(***************************************************************************)
MaxLiveEvents == 1   \* disk modifications in one behaviour of SpecLive
MaxLiveCalls == 2    \* handleToolCall calls in one behaviour of SpecLive

InitLive ==
  /\ platform = "posix"
  /\ drives = {}
  /\ limits = [events |-> MaxLiveEvents, calls |-> MaxLiveCalls, callers |-> {"t1"}]
  /\ resolvedDirs = <<"rA">>
  /\ filterOpts = [includeGiven |-> FALSE, include |-> {}, exclude |-> {}]
  /\ disk \in DriftedDisks
  /\ InitConstructed(InitDisk)

SpecLive == InitLive /\ [][Next]_vars /\ WF_vars(Discovery \/ Refresh \/ Execute)

\* the registry work a call has done so far is within its bound
WorkBounded(tk) ==
  /\ tk.op = "load_skill" =>
       /\ tk.spawns = 0
       /\ IF tk.hit THEN tk.reparses <= 1 /\ tk.rediscovers = 0
          ELSE tk.reparses = 0 /\ tk.rediscovers = 1
  /\ tk.op = "use_skill" =>
       /\ tk.reparses <= 2
       /\ tk.rediscovers = 0
       /\ tk.spawns <= 1
  /\ tk.op \in OtherToolNames =>
       tk.reparses = 0 /\ tk.rediscovers = 0 /\ tk.spawns = 0

\* C39: when the filesystem calls and the child complete, every handleToolCall
\* call ends, and at every moment it has done at most one re-parse (load_skill
\* of a known skill) or exactly one re-discovery and no re-parse (load_skill
\* of an unknown one), at most two re-parses and one spawn (use_skill), and
\* none of these for any other tool name.
C39_BoundedWork ==
  /\ [](\A t \in Callers : WorkBounded(task[t]))
  /\ \A t \in Callers : InFlight(task[t]) ~> task[t].pc = "done"

\* a use_skill call has ended after two re-parses and one spawn
C39_Witness ==
  \E t \in Callers :
    /\ task[t].op = "use_skill"
    /\ task[t].pc = "done"
    /\ task[t].reparses = 2
    /\ task[t].spawns = 1

\* every rewrite of the manifest of d came with a later modification time
MtimesDistinct(d) ==
  \A i, j \in 1..Len(disk[d].hist) : i < j => disk[d].hist[i] < disk[d].hist[j]

\* C33: whatever construction, re-discovery and refreshes were interleaved with
\* writes of a cached skill's manifest before, a load_skill of that skill that
\* starts after the last write and completes returns the content that is on
\* disk (every write having come with a later modification time).
C33_QuiescentFreshness ==
  \A t \in Callers :
    (/\ IsDone(t, "load_skill")
     /\ task[t].hit
     /\ task[t].startEpoch = epoch
     /\ disk[skillsMap[task[t].skillName].dirPath].present
     /\ MtimesDistinct(skillsMap[task[t].skillName].dirPath)) =>
      /\ task[t].result.success
      /\ task[t].result.stdout =
           parseSkillFile(skillsMap[task[t].skillName].dirPath).content

(***************************************************************************)
(* Two callers loading the skill "beta", whose folder was added to the     *)
(* root after the provider was constructed.                                *)
(***************************************************************************)
MaxMissEvents == 1   \* disk modifications in one behaviour of SpecMiss
MaxMissCalls == 3    \* handleToolCall calls in one behaviour of SpecMiss

Beta == <<"rA", "beta">>

InitMiss ==
  /\ platform = "posix"
  /\ drives = {}
  /\ limits = [events |-> MaxMissEvents, calls |-> MaxMissCalls, callers |-> Callers]
  /\ resolvedDirs = <<"rA">>
  /\ filterOpts = [includeGiven |-> FALSE, include |-> {}, exclude |-> {}]
  /\ disk = [InitDisk EXCEPT ![Beta] = [EmptyDir EXCEPT !.present = TRUE, !.hist = <<1>>]]
  /\ InitConstructed(InitDisk)

DiskEventMiss ==
  \/ \E m \in MtimeRange : WriteManifest(Beta, m, "")
  \/ RemoveManifest(Alpha)

CallMiss == \E t \in Callers : CallLoadSkill(t, "beta")

NextMiss == DiskEventMiss \/ Discovery \/ Refresh \/ CallMiss

SpecMiss == InitMiss /\ [][NextMiss]_vars

\* two load_skill calls for the same name, neither finding it in the map, were
\* in flight together and have ended, and the skill's manifest is on disk
BothMissed(t, u) ==
  /\ t # u
  /\ IsDone(t, "load_skill") /\ IsDone(u, "load_skill")
  /\ task[t].skillName = task[u].skillName
  /\ ~task[t].hit /\ ~task[u].hit
  /\ task[t].overlapped /\ task[u].overlapped
  /\ disk[<<"rA", task[t].skillName>>].present

\* C40: when two load_skill calls for the same name that is not in the map run
\* at the same time and the skill is on disk, both re-discover, the map ends
\* with the one entry of that name, and both return success with its content.
C40_ConcurrentMiss ==
  \A t, u \in Callers :
    BothMissed(t, u) =>
      LET n == task[t].skillName
      IN /\ task[t].rediscovers = 1 /\ task[u].rediscovers = 1
         /\ skillsMap[n] # NoSkill
         /\ skillsMap[n].name = n
         /\ skillsMap[n].dirPath = <<"rA", n>>
         /\ task[t].result.success /\ task[u].result.success
         /\ task[t].result.stdout[1] = <<"rA", n>>
         /\ task[u].result.stdout[1] = <<"rA", n>>

====
